---- MODULE Spec2Model ----
(***************************************************************************)
(* State-machine model of the detection and quarantine engine:             *)
(*   FileScanner (scan / scanFile / pause / resume / stop),                *)
(*   SignatureDetector, HeuristicAnalyzer, HashGenerator, ThreatDatabase,  *)
(*   QuarantineManager (quarantineFile / restoreFile / permanentDelete),   *)
(*   FileWatcher (start / stop / handleFileChange / processQueue).         *)
(* Every await of the JavaScript source is a step boundary: the code       *)
(* between two awaits runs atomically on the event loop.                   *)
(***************************************************************************)
EXTENDS Integers, Sequences, FiniteSets, TLC

VARIABLES
    scanner,    \* the FileScanner object and the position of its scan() call
    db,         \* the scanner's ThreatDatabase instance (this.data, this.initialized)
    dbFile,     \* the persisted signatures.json ("absent" or the saved data)
    detector,   \* the scanner's SignatureDetector (hash table, compiled patterns)
    hist,       \* history of the scan: what was started, digested, counted
    disk,       \* user files: path -> bytes, or Absent
    dirs,       \* the directories that exist
    vault,      \* the quarantine directory: .quar and .json objects by id
    procs,      \* in-flight QuarantineManager calls and their local variables
    nextId,     \* source of fresh quarantine ids
    orig,       \* history: the plaintext each quarantine id was made from
    lister,     \* the getQuarantineList() call in flight and its local variables
    watcher,    \* the FileWatcher object
    loops,      \* the processQueue() invocations that are alive
    fileWatcher, \* the main process holds a FileWatcher (its fileWatcher is not null)
    probe,      \* the last direct call of a detector or analyzer method and its result
    dbs,        \* the ThreatDatabase instance of each owner, over the one dbFile
    now,        \* Date.now()
    sessions,   \* the scans started through start-scan: position, scanId
    reply       \* the last reply of get-scan-history / get-statistics

scanVars  == <<scanner, db, dbFile, detector, hist>>
quarVars  == <<disk, dirs, vault, procs, nextId, orig, lister>>
watchVars == <<watcher, loops, fileWatcher>>
dbVars    == <<dbs, now, sessions, reply>>
vars      == <<scanner, db, dbFile, detector, hist,
               disk, dirs, vault, procs, nextId, orig, lister,
               watcher, loops, fileWatcher, probe,
               dbs, now, sessions, reply>>

(***************************************************************************)
(* Bounds of the model.                                                    *)
(***************************************************************************)
MaxFiles == 2        \* longest enumerated file list of one scan
MaxProgressFiles == 21  \* longest file list of a scan whose progress events are followed
MaxQuarantines == 1  \* quarantine ids handed out in one behaviour
MaxLoops == 2        \* processQueue() loops alive at the same time
ByteMod == 2         \* byte values of quarantined files are 0 .. ByteMod-1
MaxContent == 3      \* longest content of a file the detector is asked about
MaxClock == 3        \* last value of Date.now()
MaxRequests == 2     \* get-scan-history / get-statistics requests served
MaxDetections == 1   \* threats one ThreatDatabase instance records

(***************************************************************************)
(* config/config.js                                                        *)
(***************************************************************************)
MaxFileSize == 524288000
ExcludedExtensions == {".txt", ".md", ".pdf", ".jpg", ".jpeg", ".png", ".gif", ".bmp",
                       ".mp3", ".mp4", ".avi", ".mkv", ".mov"}
ExcludedPaths == {"quarantine", "WinSxS", "$Recycle.Bin"}
EnableSignatureScanning == TRUE
EnableHeuristicAnalysis == TRUE
HeuristicSensitivity == "medium"

(***************************************************************************)
(* Byte strings.  A file's bytes are a short sequence of symbols; the      *)
(* symbols that matter to the detectors are named.                         *)
(***************************************************************************)
SymFill == 0    \* any other byte
SymCmd  == 1    \* one of Invoke-WebRequest | IWR | wget | curl
SymExt  == 2    \* one of .exe | .dll | .bat | .ps1
SymMZ   == 3    \* the MZ executable header

EicarBytes  == <<SymFill, SymFill>>     \* the 68-byte EICAR test string
TrojanBytes == <<SymFill, SymMZ>>
CleanBytes  == <<SymFill>>
ScriptBytes == <<SymCmd, SymExt>>       \* "wget http://x/a.exe"

(***************************************************************************)
(* HashGenerator.generateAllHashes: three hex digests of one byte stream.  *)
(* A hex digest is identified by its algorithm, the bytes it was taken of  *)
(* (digests are collision-free) and whether it is written in upper case;   *)
(* crypto's digest('hex') is lower case.                                   *)
(***************************************************************************)
Digest(kind, bytes) == [kind |-> kind, of |-> bytes, upper |-> FALSE]
ToLowerCase(h) == [h EXCEPT !.upper = FALSE]
ToUpperCase(h) == [h EXCEPT !.upper = TRUE]
GenerateAllHashes(bytes) ==
    [md5 |-> Digest("md5", bytes), sha1 |-> Digest("sha1", bytes),
     sha256 |-> Digest("sha256", bytes)]

(***************************************************************************)
(* ThreatDatabase: the seeded catalog (populateInitialSignatures) and the  *)
(* persisted JSON file.                                                    *)
(***************************************************************************)
EicarMd5Sig ==
    [hash |-> Digest("md5", EicarBytes), hash_type |-> "md5",
     name |-> "EICAR-Test-File", type |-> "test", severity |-> "low",
     description |-> "EICAR antivirus test file"]
EicarSha256Sig ==
    [hash |-> Digest("sha256", EicarBytes), hash_type |-> "sha256",
     name |-> "EICAR-Test-File", type |-> "test", severity |-> "low",
     description |-> "EICAR antivirus test file"]
\* '(Invoke-WebRequest|IWR|wget|curl).*\.(exe|dll|bat|ps1)': a command word,
\* anything, then one of the extensions.
DownloaderSig ==
    [name |-> "PowerShell.Downloader", type |-> "trojan", severity |-> "high",
     pattern |-> [first |-> SymCmd, last |-> SymExt],
     description |-> "PowerShell download and execute pattern"]
\* A catalog entry added by a signature update: its hash is stored in upper case.
TrojanSha1Sig ==
    [hash |-> ToUpperCase(Digest("sha1", TrojanBytes)), hash_type |-> "sha1",
     name |-> "Trojan.Generic", type |-> "trojan", severity |-> "critical",
     description |-> "Generic trojan"]

\* Another one: the SHA-256 of a download script.
ScriptSha256Sig ==
    [hash |-> Digest("sha256", ScriptBytes), hash_type |-> "sha256",
     name |-> "Downloader.Script", type |-> "trojan", severity |-> "high",
     description |-> "Download script"]

EmptyData ==
    [hash_signatures |-> <<>>, pattern_signatures |-> <<>>,
     scan_history |-> <<>>, threat_detections |-> <<>>]

\* An already finished session of an earlier run.
OldSession ==
    [id |-> 1, scan_type |-> "quick", status |-> "completed",
     files_scanned |-> 1, threats_found |-> 0]

\* The states the database file can be in when the program starts.
NoDbFile == [exists |-> FALSE, data |-> EmptyData]
SeededDbFile ==
    [exists |-> TRUE,
     data |-> [EmptyData EXCEPT !.hash_signatures = <<EicarMd5Sig, EicarSha256Sig>>,
                                !.pattern_signatures = <<DownloaderSig>>,
                                !.scan_history = <<OldSession>>]]
UpdatedDbFile ==
    [exists |-> TRUE,
     data |-> [EmptyData EXCEPT
                 !.hash_signatures = <<EicarMd5Sig, EicarSha256Sig, TrojanSha1Sig,
                                       ScriptSha256Sig>>,
                 !.pattern_signatures = <<DownloaderSig>>]]
InitialDbFiles == {NoDbFile, SeededDbFile, UpdatedDbFile}

\* hashSigs.forEach(sig => { if (!find(h => h.hash === sig.hash)) push(sig) })
RECURSIVE PushMissingHashes(_, _)
PushMissingHashes(list, sigs) ==
    IF sigs = <<>> THEN list
    ELSE LET sig == Head(sigs)
             has == \E k \in 1..Len(list) : list[k].hash = sig.hash
         IN PushMissingHashes(IF has THEN list ELSE Append(list, sig), Tail(sigs))

\* patternSigs.forEach(sig => push(sig)), without the test for a known name.
PushAllPatterns(list, sigs) == list \o sigs

\* patternSigs.forEach(sig => { if (!find(p => p.name === sig.name)) push(sig) })
RECURSIVE PushMissingPatterns(_, _)
PushMissingPatterns(list, sigs) ==
    IF sigs = <<>> THEN list
    ELSE LET sig == Head(sigs)
             has == \E k \in 1..Len(list) : list[k].name = sig.name
         IN PushMissingPatterns(IF has THEN list ELSE Append(list, sig), Tail(sigs))

PopulateInitialSignatures(data) ==
    [data EXCEPT
       !.hash_signatures = PushMissingHashes(@, <<EicarMd5Sig, EicarSha256Sig>>),
       !.pattern_signatures = PushMissingPatterns(@, <<DownloaderSig>>)]

\* initialize(): the instance and the file after the call.
Initialize(d, file) ==
    IF d.initialized THEN [db |-> d, file |-> file]
    ELSE LET loaded == IF file.exists THEN file.data ELSE d.data
             seeded == IF Len(loaded.hash_signatures) = 0
                       THEN PopulateInitialSignatures(loaded) ELSE loaded
             saved  == IF ~file.exists \/ Len(loaded.hash_signatures) = 0
                       THEN [exists |-> TRUE, data |-> seeded] ELSE file
         IN [db |-> [initialized |-> TRUE, data |-> seeded], file |-> saved]

\* Date.now() of the scan being modelled; earlier sessions have smaller ids.
ScanStartTime == 2

\* recordScanStart(scanType) when Date.now() is id.
RecordScanStartAt(data, scanType, id) ==
    [data EXCEPT !.scan_history =
        Append(@, [id |-> id, scan_type |-> scanType, status |-> "running",
                   files_scanned |-> 0, threats_found |-> 0])]

RecordScanStart(data, scanType) == RecordScanStartAt(data, scanType, ScanStartTime)

\* scan_history.find(s => s.id === scanId): index of the first match, 0 if none.
FindScan(history, scanId) ==
    IF \E k \in 1..Len(history) : history[k].id = scanId
    THEN CHOOSE k \in 1..Len(history) :
            /\ history[k].id = scanId
            /\ \A j \in 1..(k-1) : history[j].id # scanId
    ELSE 0

RecordScanComplete(data, scanId, filesScanned, threatsFound) ==
    LET k == FindScan(data.scan_history, scanId)
    IN IF k = 0 THEN data
       ELSE [data EXCEPT !.scan_history[k] =
                [@ EXCEPT !.status = "completed", !.files_scanned = filesScanned,
                          !.threats_found = threatsFound]]

RecordThreatDetection(data, scanId, threat) ==
    [data EXCEPT !.threat_detections =
        Append(@, [scan_id |-> scanId, file_path |-> threat.path,
                   threat_name |-> threat.name, threat_type |-> threat.type,
                   severity |-> threat.severity,
                   detection_method |-> threat.detectionMethod])]

(***************************************************************************)
(* SignatureDetector.                                                      *)
(***************************************************************************)
SigInfo(sig) ==
    [name |-> sig.name, type |-> sig.type, severity |-> sig.severity,
     description |-> sig.description]

\* hashes.set(sig.hash.toLowerCase(), {...}) for each signature in order: a later
\* entry with the same key replaces an earlier one.
RECURSIVE HashMap(_)
HashMap(sigs) ==
    IF sigs = <<>> THEN <<>>
    ELSE LET n    == Len(sigs)
             rest == HashMap(SubSeq(sigs, 1, n - 1))
             key  == ToLowerCase(sigs[n].hash)
         IN [h \in (DOMAIN rest) \cup {key} |->
                IF h = key THEN SigInfo(sigs[n]) ELSE rest[h]]

CompilePatterns(sigs) ==
    [k \in 1..Len(sigs) |->
        [name |-> sigs[k].name, type |-> sigs[k].type, severity |-> sigs[k].severity,
         description |-> sigs[k].description, pattern |-> sigs[k].pattern,
         lastIndex |-> 0]]

NewDetector == [signaturesLoaded |-> FALSE, hashes |-> <<>>, patterns |-> <<>>]

LoadSignatures(det, data) ==
    IF det.signaturesLoaded THEN det
    ELSE [signaturesLoaded |-> TRUE,
          hashes |-> HashMap(data.hash_signatures),
          patterns |-> CompilePatterns(data.pattern_signatures)]

NoInfo == [name |-> "", type |-> "", severity |-> "", description |-> ""]

\* checkHashSignatures with the SHA-1 lookup left out.
CheckHashSignaturesNoSha1(det, hashes) ==
    IF ToLowerCase(hashes.md5) \in DOMAIN det.hashes
    THEN [found |-> TRUE, info |-> det.hashes[ToLowerCase(hashes.md5)]]
    ELSE IF ToLowerCase(hashes.sha256) \in DOMAIN det.hashes
    THEN [found |-> TRUE, info |-> det.hashes[ToLowerCase(hashes.sha256)]]
    ELSE [found |-> FALSE, info |-> NoInfo]

\* checkHashSignatures: MD5, then SHA-1, then SHA-256.
CheckHashSignatures(det, hashes) ==
    IF ToLowerCase(hashes.md5) \in DOMAIN det.hashes
    THEN [found |-> TRUE, info |-> det.hashes[ToLowerCase(hashes.md5)]]
    ELSE IF ToLowerCase(hashes.sha1) \in DOMAIN det.hashes
    THEN [found |-> TRUE, info |-> det.hashes[ToLowerCase(hashes.sha1)]]
    ELSE IF ToLowerCase(hashes.sha256) \in DOMAIN det.hashes
    THEN [found |-> TRUE, info |-> det.hashes[ToLowerCase(hashes.sha256)]]
    ELSE [found |-> FALSE, info |-> NoInfo]

\* RegExp.prototype.test of a pattern compiled with the g flag: the search
\* starts at lastIndex; a match moves lastIndex past it, a failure resets it.
RegexTest(pat, content, lastIndex) ==
    LET n     == Len(content)
        cands == {p \in (lastIndex + 1)..n :
                    /\ content[p] = pat.first
                    /\ \E q \in (p + 1)..n : content[q] = pat.last}
    IN IF cands = {} THEN [matched |-> FALSE, lastIndex |-> 0]
       ELSE LET p == CHOOSE x \in cands : \A y \in cands : x <= y
                q == CHOOSE x \in (p + 1)..n :
                        /\ content[x] = pat.last
                        /\ \A y \in (p + 1)..n : content[y] = pat.last => y <= x
            IN [matched |-> TRUE, lastIndex |-> q]

PatternScanExtensions ==
    {".exe", ".dll", ".bat", ".cmd", ".ps1", ".vbs", ".js", ".jar", ".scr", ".com"}

\* The for loop of checkPatternSignatures from pattern k on: the first pattern
\* whose test succeeds, and the patterns with their lastIndex as the tests left it.
RECURSIVE TestPatterns(_, _, _)
TestPatterns(patterns, content, k) ==
    IF k > Len(patterns) THEN [found |-> FALSE, info |-> NoInfo, patterns |-> patterns]
    ELSE LET t  == RegexTest(patterns[k].pattern, content, patterns[k].lastIndex)
             ps == [patterns EXCEPT ![k].lastIndex = t.lastIndex]
         IN IF t.matched
            THEN [found |-> TRUE, info |-> SigInfo(patterns[k]), patterns |-> ps]
            ELSE TestPatterns(ps, content, k + 1)

CheckPatternSignatures(det, file) ==
    IF file.ext \notin PatternScanExtensions \/ file.readErr # "none"
    THEN [found |-> FALSE, info |-> NoInfo, patterns |-> det.patterns]
    ELSE TestPatterns(det.patterns, file.bytes, 1)

\* detect that asks the patterns before the hashes.
DetectPatternFirst(det, file, hashes) ==
    LET h == CheckHashSignatures(det, hashes)
        p == CheckPatternSignatures(det, file)
    IN IF p.found
       THEN [found |-> TRUE, info |-> p.info, method |-> "signature-pattern",
             patterns |-> p.patterns]
       ELSE IF h.found
       THEN [found |-> TRUE, info |-> h.info, method |-> "signature-hash",
             patterns |-> p.patterns]
       ELSE [found |-> FALSE, info |-> NoInfo, method |-> "", patterns |-> p.patterns]

\* detect(filePath, hashes), on a detector whose signatures are loaded.
Detect(det, file, hashes) ==
    LET h == CheckHashSignatures(det, hashes)
        p == CheckPatternSignatures(det, file)
    IN IF h.found
       THEN [found |-> TRUE, info |-> h.info, method |-> "signature-hash",
             patterns |-> det.patterns]
       ELSE IF p.found
       THEN [found |-> TRUE, info |-> p.info, method |-> "signature-pattern",
             patterns |-> p.patterns]
       ELSE [found |-> FALSE, info |-> NoInfo, method |-> "", patterns |-> p.patterns]

(***************************************************************************)
(* Files as the scanner sees them: what fs.stat, path.extname, the read    *)
(* stream and attrib report.  statErr / readErr are the error codes the    *)
(* file system answers with ("none": the call succeeds).                   *)
(***************************************************************************)
File(path, dir, ext, size, bytes) ==
    [path |-> path, dir |-> dir, ext |-> ext, size |-> size, bytes |-> bytes,
     statErr |-> "none", readErr |-> "none",
     nameHit |-> FALSE, hiddenOrSystem |-> FALSE, doubleExt |-> FALSE]

EicarCom  == File("eicar.com", "Documents", ".com", 68, EicarBytes)
EicarTxt  == File("eicar.txt", "Documents", ".txt", 68, EicarBytes)
BigExe    == File("big.exe", "Documents", ".exe", MaxFileSize + 1, EicarBytes)
CleanDoc  == File("notes.docx", "Documents", ".docx", 2048, CleanBytes)
TrojanDll == File("lib.dll", "Documents", ".dll", 20480, TrojanBytes)
\* get.ps1 and crack.exe are suspicious to the heuristics by name, place and
\* size; get.ps1 holds the download pattern, crack.exe the trojan's bytes.
GetPs1    == [File("get.ps1", "Downloads", ".ps1", 512, ScriptBytes)
                EXCEPT !.nameHit = TRUE]
CrackExe  == [File("crack.exe", "Downloads", ".exe", 4096, TrojanBytes)
                EXCEPT !.nameHit = TRUE]
LockedExe == [File("locked.exe", "Documents", ".exe", 20480, TrojanBytes)
                EXCEPT !.readErr = "EBUSY"]
GoneExe   == [File("gone.exe", "Documents", ".exe", 20480, EicarBytes)
                EXCEPT !.statErr = "ENOENT"]

Files == {EicarCom, EicarTxt, BigExe, CleanDoc, TrojanDll, GetPs1,
          CrackExe, LockedExe, GoneExe}

RECURSIVE SeqsUpTo(_, _)
SeqsUpTo(S, n) ==
    IF n = 0 THEN {<<>>}
    ELSE LET shorter == SeqsUpTo(S, n - 1)
         IN shorter \cup {Append(q, x) : q \in shorter, x \in S}

\* What glob can enumerate: any list of at most MaxFiles files (overlapping scan
\* paths, such as TEMP and TMP of the quick scan, list a file twice).
FileLists == SeqsUpTo(Files, MaxFiles)

(***************************************************************************)
(* HeuristicAnalyzer.                                                      *)
(***************************************************************************)
\* The thresholds with every sensitivity at the medium cutoff.
SuspicionThresholdMediumOnly(sensitivity) == 40

\* this.suspicionThresholds[this.sensitivity]
SuspicionThreshold(sensitivity) ==
    CASE sensitivity = "low" -> 60
      [] sensitivity = "medium" -> 40
      [] sensitivity = "high" -> 25

HighRiskExtensions ==
    {".exe", ".scr", ".pif", ".bat", ".cmd", ".com", ".vbs", ".vbe",
     ".js", ".jse", ".wsf", ".wsh", ".msi", ".jar", ".ps1", ".psm1"}
MediumRiskExtensions ==
    {".dll", ".sys", ".drv", ".ocx", ".cpl", ".scf", ".lnk", ".inf",
     ".reg", ".hta", ".gadget", ".application", ".msp", ".mst"}
SuspiciousLocations == {"Temp", "tmp", "Downloads", "Recycler", "System32", "SysWOW64"}

CheckSuspiciousExtension(ext) ==
    IF ext \in HighRiskExtensions THEN 15
    ELSE IF ext \in MediumRiskExtensions THEN 10 ELSE 0
CheckSuspiciousFileName(file) == IF file.nameHit THEN 20 ELSE 0
CheckSuspiciousLocation(file) == IF file.dir \in SuspiciousLocations THEN 10 ELSE 0
CheckSuspiciousSize(size, ext) ==
    IF ext \in {".exe", ".dll", ".scr"} /\ size < 10 * 1024 THEN 15
    ELSE IF ext \in {".bat", ".cmd", ".vbs", ".ps1"} /\ size > 1024 * 1024 THEN 10
    ELSE 0
CheckFileAttributes(file) ==
    IF file.ext \in {".exe", ".dll", ".scr", ".bat", ".cmd"} /\ file.hiddenOrSystem
    THEN 15 ELSE 0
HasDoubleExtension(file) == file.doubleExt
HasExecutableContent(file) ==
    /\ file.ext \notin {".exe", ".dll", ".scr", ".com"}
    /\ file.readErr = "none"
    /\ Len(file.bytes) > 0
    /\ file.bytes[1] = SymMZ

\* suspiciousTraits: the checks of analyze that fire on the file.
SuspiciousTraits(file) ==
    {t \in {"extension", "name", "location", "size", "attributes", "double", "content"} :
        CASE t = "extension"  -> CheckSuspiciousExtension(file.ext) > 0
          [] t = "name"       -> CheckSuspiciousFileName(file) > 0
          [] t = "location"   -> CheckSuspiciousLocation(file) > 0
          [] t = "size"       -> CheckSuspiciousSize(file.size, file.ext) > 0
          [] t = "attributes" -> CheckFileAttributes(file) > 0
          [] t = "double"     -> HasDoubleExtension(file)
          [] t = "content"    -> HasExecutableContent(file)}

\* A score in which an executable header overrides the other checks.
SuspicionScoreHeaderOverrides(file) ==
    IF HasExecutableContent(file) THEN 15
    ELSE CheckSuspiciousExtension(file.ext) + CheckSuspiciousFileName(file)
         + CheckSuspiciousLocation(file) + CheckSuspiciousSize(file.size, file.ext)
         + CheckFileAttributes(file)
         + (IF HasDoubleExtension(file) THEN 20 ELSE 0)

\* suspicionScore at the end of analyze.
SuspicionScore(file) ==
    CheckSuspiciousExtension(file.ext) + CheckSuspiciousFileName(file)
    + CheckSuspiciousLocation(file) + CheckSuspiciousSize(file.size, file.ext)
    + CheckFileAttributes(file)
    + (IF HasDoubleExtension(file) THEN 20 ELSE 0)
    + (IF HasExecutableContent(file) THEN 15 ELSE 0)

\* analyze(filePath, stats) of an analyzer whose this.sensitivity is given.
AnalyzeAt(file, sensitivity) ==
    LET score == SuspicionScore(file)
    IN IF score >= SuspicionThreshold(sensitivity)
       THEN [found |-> TRUE, method |-> "heuristic",
             info |-> [name |-> "Heuristic Detection", type |-> "suspicious",
                       severity |-> IF score >= 70 THEN "high"
                                    ELSE IF score >= 50 THEN "medium" ELSE "low",
                       description |-> "Suspicious file detected"]]
       ELSE [found |-> FALSE, method |-> "", info |-> NoInfo]

\* analyze as the scanner's analyzer runs it, at the configured sensitivity.
Analyze(file) == AnalyzeAt(file, HeuristicSensitivity)

(***************************************************************************)
(* FileScanner.scanFile and the helpers it calls.                          *)
(***************************************************************************)
IsExcluded(file) ==
    \/ file.ext \in ExcludedExtensions
    \/ file.dir \in ExcludedPaths

NoThreat ==
    [path |-> "", name |-> "", type |-> "", severity |-> "", description |-> "",
     detectionMethod |-> "", fileSize |-> 0]

\* handleThreatFound builds the Threat from the detector's answer.
MakeThreat(file, info, method) ==
    [path |-> file.path, name |-> info.name, type |-> info.type,
     severity |-> info.severity, description |-> info.description,
     detectionMethod |-> method, fileSize |-> file.size]

ScanOutcome(outcome, threat, digested, det) ==
    [outcome |-> outcome, threat |-> threat, digested |-> digested, detector |-> det]

\* scanFile(filePath): "threat" (the Threat is returned), "null" or "throw";
\* whether the file was digested; and the detector as the call leaves it.
ScanFile(det, data, file) ==
    IF file.statErr \in {"ENOENT", "EACCES"} THEN ScanOutcome("null", NoThreat, FALSE, det)
    ELSE IF file.statErr # "none" THEN ScanOutcome("throw", NoThreat, FALSE, det)
    ELSE IF file.size > MaxFileSize THEN ScanOutcome("null", NoThreat, FALSE, det)
    ELSE IF IsExcluded(file) THEN ScanOutcome("null", NoThreat, FALSE, det)
    ELSE IF file.readErr \in {"ENOENT", "EACCES"}
         THEN ScanOutcome("null", NoThreat, FALSE, det)
    ELSE IF file.readErr # "none" THEN ScanOutcome("throw", NoThreat, FALSE, det)
    ELSE
      LET hashes == GenerateAllHashes(file.bytes)
          loaded == IF EnableSignatureScanning THEN LoadSignatures(det, data) ELSE det
          sig    == IF EnableSignatureScanning
                    THEN Detect(loaded, file, hashes)
                    ELSE [found |-> FALSE, info |-> NoInfo, method |-> "",
                          patterns |-> det.patterns]
          after  == [loaded EXCEPT !.patterns = sig.patterns]
          heur   == IF EnableHeuristicAnalysis THEN Analyze(file)
                    ELSE [found |-> FALSE, method |-> "", info |-> NoInfo]
      IN IF sig.found
         THEN ScanOutcome("threat", MakeThreat(file, sig.info, sig.method), TRUE, after)
         ELSE IF heur.found
         THEN ScanOutcome("threat", MakeThreat(file, heur.info, heur.method), TRUE, after)
         ELSE ScanOutcome("null", NoThreat, TRUE, after)

(***************************************************************************)
(* FileScanner.scan as a state machine.  scanner.pc is the await the call  *)
(* is suspended at:                                                        *)
(*   "idle"         scan() has not been called                             *)
(*   "initialize"   await this.db.initialize()                             *)
(*   "recordStart"  await this.db.recordScanStart(type)                    *)
(*   "collect"      await this.collectFiles(scanPaths, deep)               *)
(*   "sleep"        await this.sleep(100) inside while (this.paused)       *)
(*   "scanFile"     await this.scanFile(filePath)                          *)
(*   "saveComplete" await this.db.recordScanComplete(...)                  *)
(*   "done"         scan() returned this.stats                             *)
(*   "thrown"       scan() threw                                           *)
(***************************************************************************)
ScanTypes == {"quick", "custom", "unknown"}
PathLists == {<<>>, <<"Documents">>}

NewStats == [filesScanned |-> 0, threatsFound |-> 0, errors |-> 0, threats |-> <<>>]

NewScanner ==
    [scanning |-> FALSE, paused |-> FALSE, pc |-> "idle", type |-> "quick",
     paths |-> <<>>, files |-> <<>>, i |-> 0, totalFiles |-> 0, scanId |-> 0,
     stats |-> NewStats]

NewHist ==
    [stopped |-> FALSE, started |-> {}, digested |-> {}, counted |-> {}, failed |-> {},
     progress |-> <<>>]

\* The scan() call is between its first statement and its return or throw.
ScanInProgress(sc) == sc.pc \notin {"idle", "done", "thrown"}

\* The test of the scan type that takes 'custom' without looking at the paths.
ValidScanRequestAnyPaths(type, paths) == type \in {"quick", "full", "custom"}

\* if (type === 'quick') ... else throw new Error('Invalid scan type or paths')
ValidScanRequest(type, paths) ==
    \/ type = "quick"
    \/ type = "full"
    \/ type = "custom" /\ Len(paths) > 0

\* The loop head of a scan that gives up after the first per-file error.
LoopTopStopsOnError(sc, d, h) ==
    IF sc.i >= Len(sc.files) \/ ~sc.scanning \/ sc.stats.errors > 0
    THEN [scanner |-> [sc EXCEPT !.pc = "saveComplete"],
          db |-> [d EXCEPT !.data = RecordScanComplete(@, sc.scanId,
                                        sc.stats.filesScanned, sc.stats.threatsFound)],
          hist |-> h]
    ELSE IF sc.paused
    THEN [scanner |-> [sc EXCEPT !.pc = "sleep"], db |-> d, hist |-> h]
    ELSE [scanner |-> [sc EXCEPT !.pc = "scanFile"], db |-> d,
          hist |-> [h EXCEPT !.started = @ \cup {sc.i + 1}]]

\* The head of the for loop at index sc.i (0-based), run to its next await:
\* the bound and the scanning flag are tested, then the paused flag.
LoopTop(sc, d, h) ==
    IF sc.i >= Len(sc.files) \/ ~sc.scanning
    THEN [scanner |-> [sc EXCEPT !.pc = "saveComplete"],
          db |-> [d EXCEPT !.data = RecordScanComplete(@, sc.scanId,
                                        sc.stats.filesScanned, sc.stats.threatsFound)],
          hist |-> h]
    ELSE IF sc.paused
    THEN [scanner |-> [sc EXCEPT !.pc = "sleep"], db |-> d, hist |-> h]
    ELSE [scanner |-> [sc EXCEPT !.pc = "scanFile"], db |-> d,
          hist |-> [h EXCEPT !.started = @ \cup {sc.i + 1}]]

\* A sleep of the pause poll after which the file is scanned, paused or not.
AfterSleepOnce(sc, h) ==
    [scanner |-> [sc EXCEPT !.pc = "scanFile"],
     hist |-> [h EXCEPT !.started = @ \cup {sc.i + 1}]]

\* while (this.paused) { await this.sleep(100); } after a sleep has elapsed.
AfterSleep(sc, h) ==
    IF sc.paused
    THEN [scanner |-> sc, hist |-> h]
    ELSE [scanner |-> [sc EXCEPT !.pc = "scanFile"],
          hist |-> [h EXCEPT !.started = @ \cup {sc.i + 1}]]

\* A loop whose catch block logs the error without counting it.
CountFileDropsErrors(stats, r) ==
    IF r.outcome = "throw" THEN stats
    ELSE LET found == IF r.outcome = "threat"
                      THEN [stats EXCEPT !.threatsFound = @ + 1,
                                         !.threats = Append(@, r.threat)]
                      ELSE stats
         IN [found EXCEPT !.filesScanned = @ + 1]

\* The try / catch around scanFile in the loop: the counters after the call.
CountFile(stats, r) ==
    IF r.outcome = "throw" THEN [stats EXCEPT !.errors = @ + 1]
    ELSE LET found == IF r.outcome = "threat"
                      THEN [stats EXCEPT !.threatsFound = @ + 1,
                                         !.threats = Append(@, r.threat)]
                      ELSE stats
         IN [found EXCEPT !.filesScanned = @ + 1]

ScanCall(type, paths) ==
    /\ scanner.pc = "idle"
    /\ scanner' = [scanner EXCEPT !.scanning = TRUE, !.pc = "initialize",
                                  !.type = type, !.paths = paths]
    /\ UNCHANGED <<db, dbFile, detector, hist>>
    /\ UNCHANGED quarVars
    /\ UNCHANGED watchVars
    /\ UNCHANGED probe
    /\ UNCHANGED dbVars

ScanDbInitialize ==
    /\ scanner.pc = "initialize"
    /\ LET r == Initialize(db, dbFile)
       IN /\ db' = [r.db EXCEPT !.data = RecordScanStart(@, scanner.type)]
          /\ dbFile' = r.file
    /\ scanner' = [scanner EXCEPT !.pc = "recordStart"]
    /\ UNCHANGED <<detector, hist>>
    /\ UNCHANGED quarVars
    /\ UNCHANGED watchVars
    /\ UNCHANGED probe
    /\ UNCHANGED dbVars

\* Math.round((filesScanned / totalFiles) * 100) for totalFiles > 0: the
\* nearest integer, a half rounded up.
Percentage(filesScanned, totalFiles) ==
    (200 * filesScanned + totalFiles) \div (2 * totalFiles)

\* The multiple of filesScanned at which a progress event is due.
ProgressEvery == 10

\* A test that lets every scanned file emit a progress event.
EmitsProgressEveryFile(filesScanned, totalFiles) == filesScanned > 0

\* if (this.stats.filesScanned % 10 === 0 || this.stats.filesScanned === totalFiles)
EmitsProgress(filesScanned, totalFiles) ==
    \/ filesScanned % ProgressEvery = 0
    \/ filesScanned = totalFiles

\* The payload of this.emit('progress', {...}) (currentFile left out).
ProgressEvent(stats, totalFiles) ==
    [filesScanned |-> stats.filesScanned, totalFiles |-> totalFiles,
     percentage |-> Percentage(stats.filesScanned, totalFiles),
     threatsFound |-> stats.threatsFound]

\* The progress events emitted so far, after scanFile has settled with
\* outcome r and the counters have become stats.
EmittedProgress(events, r, stats, totalFiles) ==
    IF r.outcome # "throw" /\ EmitsProgress(stats.filesScanned, totalFiles)
    THEN Append(events, ProgressEvent(stats, totalFiles))
    ELSE events

ScanRecordStarted ==
    /\ scanner.pc = "recordStart"
    /\ dbFile' = [exists |-> TRUE, data |-> db.data]
    /\ scanner' =
         LET sc == [scanner EXCEPT !.scanId = ScanStartTime, !.stats = NewStats]
         IN IF ValidScanRequest(sc.type, sc.paths)
            THEN [sc EXCEPT !.pc = "collect"]
            ELSE [sc EXCEPT !.pc = "thrown", !.scanning = FALSE]
    /\ UNCHANGED <<db, detector, hist>>
    /\ UNCHANGED quarVars
    /\ UNCHANGED watchVars
    /\ UNCHANGED probe
    /\ UNCHANGED dbVars

ScanCollected(files) ==
    /\ scanner.pc = "collect"
    /\ LET sc == [scanner EXCEPT !.files = files, !.totalFiles = Len(files), !.i = 0]
           r  == LoopTop(sc, db, hist)
       IN /\ scanner' = r.scanner
          /\ db' = r.db
          /\ hist' = r.hist
    /\ UNCHANGED <<dbFile, detector>>
    /\ UNCHANGED quarVars
    /\ UNCHANGED watchVars
    /\ UNCHANGED probe
    /\ UNCHANGED dbVars

ScanSleepWake ==
    /\ scanner.pc = "sleep"
    /\ LET r == AfterSleep(scanner, hist)
       IN /\ scanner' = r.scanner
          /\ hist' = r.hist
    /\ UNCHANGED <<db, dbFile, detector>>
    /\ UNCHANGED quarVars
    /\ UNCHANGED watchVars
    /\ UNCHANGED probe
    /\ UNCHANGED dbVars

ScanFileDone ==
    /\ scanner.pc = "scanFile"
    /\ \E res \in {ScanFile(detector, db.data, scanner.files[scanner.i + 1])} :
         LET k  == scanner.i + 1
             d1 == IF res.outcome = "threat"
                   THEN [db EXCEPT !.data =
                           RecordThreatDetection(@, scanner.scanId, res.threat)]
                   ELSE db
             sc == [scanner EXCEPT !.stats = CountFile(@, res), !.i = @ + 1]
             h1 == [hist EXCEPT
                      !.digested = IF res.digested THEN @ \cup {k} ELSE @,
                      !.counted  = IF res.outcome # "throw" THEN @ \cup {k} ELSE @,
                      !.failed   = IF res.outcome = "throw" THEN @ \cup {k} ELSE @,
                      !.progress = EmittedProgress(@, res, sc.stats, sc.totalFiles)]
         IN \E r \in {LoopTop(sc, d1, h1)} :
              /\ detector' = res.detector
              /\ scanner' = r.scanner
              /\ db' = r.db
              /\ hist' = r.hist
              /\ dbFile' = IF res.outcome = "threat"
                           THEN [exists |-> TRUE, data |-> d1.data] ELSE dbFile
    /\ UNCHANGED quarVars
    /\ UNCHANGED watchVars
    /\ UNCHANGED probe
    /\ UNCHANGED dbVars

ScanCompleteSaved ==
    /\ scanner.pc = "saveComplete"
    /\ dbFile' = IF FindScan(db.data.scan_history, scanner.scanId) # 0
                 THEN [exists |-> TRUE, data |-> db.data] ELSE dbFile
    /\ scanner' = [scanner EXCEPT !.pc = "done", !.scanning = FALSE]
    /\ UNCHANGED <<db, detector, hist>>
    /\ UNCHANGED quarVars
    /\ UNCHANGED watchVars
    /\ UNCHANGED probe
    /\ UNCHANGED dbVars

Pause ==
    /\ scanner.pc \notin {"done", "thrown"}
    /\ scanner' = [scanner EXCEPT !.paused = TRUE]
    /\ UNCHANGED <<db, dbFile, detector, hist>>
    /\ UNCHANGED quarVars
    /\ UNCHANGED watchVars
    /\ UNCHANGED probe
    /\ UNCHANGED dbVars

Resume ==
    /\ scanner.pc \notin {"done", "thrown"}
    /\ scanner' = [scanner EXCEPT !.paused = FALSE]
    /\ UNCHANGED <<db, dbFile, detector, hist>>
    /\ UNCHANGED quarVars
    /\ UNCHANGED watchVars
    /\ UNCHANGED probe
    /\ UNCHANGED dbVars

Stop ==
    /\ scanner.pc \notin {"done", "thrown"}
    /\ scanner' = [scanner EXCEPT !.scanning = FALSE]
    /\ hist' = [hist EXCEPT !.stopped = @ \/ ScanInProgress(scanner)]
    /\ UNCHANGED <<db, dbFile, detector>>
    /\ UNCHANGED quarVars
    /\ UNCHANGED watchVars
    /\ UNCHANGED probe
    /\ UNCHANGED dbVars

(***************************************************************************)
(* QuarantineManager: the cipher.  AES-256-CBC is modelled by a block      *)
(* cipher on single bytes in CBC mode: each plaintext byte is combined     *)
(* with the previous ciphertext byte (the IV for the first) and then       *)
(* enciphered under the key; PKCS#7 padding appends one pad byte, which    *)
(* decryption checks and strips.                                           *)
(***************************************************************************)
EncryptionKey == 3
\* The values crypto.randomBytes(16) is let to return.
IVs == {0, ByteMod - 1}

EncByte(x) == (x + EncryptionKey) % ByteMod
DecByte(y) == (y + ByteMod * EncryptionKey - EncryptionKey) % ByteMod

RECURSIVE CbcEncrypt(_, _)
CbcEncrypt(plain, prev) ==
    IF plain = <<>> THEN <<>>
    ELSE LET c == EncByte((Head(plain) + prev) % ByteMod)
         IN <<c>> \o CbcEncrypt(Tail(plain), c)

RECURSIVE CbcDecrypt(_, _)
CbcDecrypt(cipher, prev) ==
    IF cipher = <<>> THEN <<>>
    ELSE <<(DecByte(Head(cipher)) + ByteMod - prev) % ByteMod>>
         \o CbcDecrypt(Tail(cipher), Head(cipher))

\* cipher.update(content) ++ cipher.final(): the content and its padding.
Padded(content) == Append(content, 1)

\* encryptFile(content) with the IV that crypto.randomBytes(16) returned.
EncryptFile(content, iv) == <<iv>> \o CbcEncrypt(Padded(content), iv)

\* decryptFile that returns decipher.update() alone, padding included.
DecryptFileKeepsPadding(enc) ==
    IF Len(enc) < 2 THEN [ok |-> FALSE, bytes |-> <<>>]
    ELSE [ok |-> TRUE, bytes |-> CbcDecrypt(Tail(enc), Head(enc))]

\* decryptFile(encryptedContent): ok is FALSE when decipher.final() throws.
DecryptFile(enc) ==
    IF Len(enc) < 2 THEN [ok |-> FALSE, bytes |-> <<>>]
    ELSE LET padded == CbcDecrypt(Tail(enc), Head(enc))
             n      == Len(padded)
         IN IF padded[n] = 1
            THEN [ok |-> TRUE, bytes |-> SubSeq(padded, 1, n - 1)]
            ELSE [ok |-> FALSE, bytes |-> <<>>]

(***************************************************************************)
(* The files the quarantine works on.                                      *)
(***************************************************************************)
Dirs == {"Downloads", "Desktop"}
PathA == [dir |-> "Downloads", name |-> "a.exe"]
\* path.join(os.homedir(), 'Desktop', 'Restored_' + metadata.fileName)
FallbackPath(fileName) == [dir |-> "Desktop", name |-> "Restored_" \o fileName]
UserPaths == {PathA}
AllPaths == UserPaths \cup {FallbackPath(p.name) : p \in UserPaths}

Absent == [exists |-> FALSE, bytes |-> <<>>]
Present(bytes) == [exists |-> TRUE, bytes |-> bytes]

BytesA == <<1, 0>>
\* The contents a.exe may have: empty, one byte, two bytes.
FileContents == {<<>>, <<1>>, BytesA}

NoMeta ==
    [id |-> 0, originalPath |-> PathA, fileName |-> "", fileSize |-> 0,
     hash |-> Digest("sha256", <<>>)]

\* The IPC handlers of the main process call all three operations; the
\* FileWatcher calls quarantineFile only (scanAndHandle).
Callers == {"ui", "watcher"}
IpcCallers == {"ui"}

NewProc ==
    [op |-> "none", pc |-> "idle", path |-> PathA, id |-> 0, content |-> <<>>,
     cipher |-> <<>>, meta |-> NoMeta, restorePath |-> PathA, plain |-> <<>>,
     success |-> FALSE, error |-> "", wroteCipher |-> FALSE, wroteMeta |-> FALSE,
     wrotePlain |-> FALSE]

Free(c) == procs[c].pc \in {"idle", "done"}

\* The call of caller c has settled: what the caller can observe of it, and what
\* it did, are kept; its other local variables are gone.
Settled(pr, success, err) ==
    [NewProc EXCEPT !.op = pr.op, !.pc = "done", !.path = pr.path, !.id = pr.id,
                    !.success = success, !.error = err,
                    !.wroteCipher = pr.wroteCipher, !.wroteMeta = pr.wroteMeta,
                    !.wrotePlain = pr.wrotePlain,
                    !.restorePath = IF pr.wrotePlain THEN pr.restorePath ELSE PathA,
                    !.plain = IF pr.wrotePlain THEN pr.plain ELSE <<>>,
                    !.meta = IF pr.wrotePlain THEN pr.meta ELSE NoMeta]

\* The call of caller c ends by throwing err (the catch block logs and rethrows).
Throw(c, err) == [procs EXCEPT ![c] = Settled(procs[c], FALSE, err)]
\* The call of caller c returns { success: true, ... }.
Return(c) == [procs EXCEPT ![c] = Settled(procs[c], TRUE, "")]

Without(f, id) == [x \in (DOMAIN f) \ {id} |-> f[x]]
With(f, id, v) == [x \in (DOMAIN f) \cup {id} |-> IF x = id THEN v ELSE f[x]]

(***************************************************************************)
(* quarantineFile(filePath), one action per await.                         *)
(***************************************************************************)
QuarantineCall(c, path) ==
    /\ Free(c)
    /\ nextId <= MaxQuarantines
    /\ procs' = [procs EXCEPT ![c] = [NewProc EXCEPT !.op = "quarantine",
                                        !.pc = "q_pathExists", !.path = path]]
    /\ UNCHANGED <<disk, dirs, vault, nextId, orig>>
    /\ UNCHANGED lister
    /\ UNCHANGED scanVars
    /\ UNCHANGED watchVars
    /\ UNCHANGED probe
    /\ UNCHANGED dbVars

\* if (!await fs.pathExists(filePath)) throw new Error('File not found')
QuarantinePathExists(c) ==
    /\ procs[c].pc = "q_pathExists"
    /\ procs' = IF disk[procs[c].path].exists
                THEN [procs EXCEPT ![c].pc = "q_stat"]
                ELSE Throw(c, "File not found")
    /\ UNCHANGED <<disk, dirs, vault, nextId, orig>>
    /\ UNCHANGED lister
    /\ UNCHANGED scanVars
    /\ UNCHANGED watchVars
    /\ UNCHANGED probe
    /\ UNCHANGED dbVars

\* await fs.stat(filePath); path.basename; generateQuarantineId()
QuarantineStat(c, fails) ==
    /\ procs[c].pc = "q_stat"
    /\ IF fails \/ ~disk[procs[c].path].exists
       THEN /\ procs' = Throw(c, "stat failed")
            /\ UNCHANGED nextId
       ELSE /\ procs' = [procs EXCEPT ![c].pc = "q_readFile", ![c].id = nextId,
                           ![c].meta = [NoMeta EXCEPT
                              !.id = nextId,
                              !.originalPath = procs[c].path,
                              !.fileName = procs[c].path.name,
                              !.fileSize = Len(disk[procs[c].path].bytes)]]
            /\ nextId' = nextId + 1
    /\ UNCHANGED <<disk, dirs, vault, orig>>
    /\ UNCHANGED lister
    /\ UNCHANGED scanVars
    /\ UNCHANGED watchVars
    /\ UNCHANGED probe
    /\ UNCHANGED dbVars

\* await fs.readFile(filePath); this.encryptFile(fileContent)
QuarantineReadFile(c, fails, iv) ==
    /\ procs[c].pc = "q_readFile"
    /\ IF fails \/ ~disk[procs[c].path].exists
       THEN /\ procs' = Throw(c, "read failed")
            /\ UNCHANGED orig
       ELSE LET content == disk[procs[c].path].bytes
            IN /\ procs' = [procs EXCEPT ![c].pc = "q_writeQuar",
                              ![c].content = content,
                              ![c].cipher = EncryptFile(content, iv)]
               /\ orig' = With(orig, procs[c].id, content)
    /\ UNCHANGED <<disk, dirs, vault, nextId>>
    /\ UNCHANGED lister
    /\ UNCHANGED scanVars
    /\ UNCHANGED watchVars
    /\ UNCHANGED probe
    /\ UNCHANGED dbVars

\* await fs.writeFile(quarantineFilePath, encryptedContent); the metadata
\* object is built next, with the SHA-256 of the bytes that were read.
QuarantineWriteQuar(c, fails) ==
    /\ procs[c].pc = "q_writeQuar"
    /\ IF fails
       THEN /\ procs' = Throw(c, "write failed")
            /\ UNCHANGED vault
       ELSE /\ vault' = [vault EXCEPT !.quar = With(@, procs[c].id, procs[c].cipher)]
            /\ procs' = [procs EXCEPT ![c].pc = "q_writeMeta", ![c].wroteCipher = TRUE,
                           ![c].meta.hash = Digest("sha256", procs[c].content)]
    /\ UNCHANGED <<disk, dirs, nextId, orig>>
    /\ UNCHANGED lister
    /\ UNCHANGED scanVars
    /\ UNCHANGED watchVars
    /\ UNCHANGED probe
    /\ UNCHANGED dbVars

\* await fs.writeJson(metadataPath, metadata, { spaces: 2 })
QuarantineWriteMeta(c, fails) ==
    /\ procs[c].pc = "q_writeMeta"
    /\ IF fails
       THEN /\ procs' = Throw(c, "write failed")
            /\ UNCHANGED vault
       ELSE /\ vault' = [vault EXCEPT !.meta = With(@, procs[c].id, procs[c].meta)]
            /\ procs' = [procs EXCEPT ![c].pc = "q_remove", ![c].wroteMeta = TRUE]
    /\ UNCHANGED <<disk, dirs, nextId, orig>>
    /\ UNCHANGED lister
    /\ UNCHANGED scanVars
    /\ UNCHANGED watchVars
    /\ UNCHANGED probe
    /\ UNCHANGED dbVars

\* await fs.remove(filePath); return { success: true, quarantineId, message }
QuarantineRemoveOriginal(c, fails) ==
    /\ procs[c].pc = "q_remove"
    /\ IF fails
       THEN /\ procs' = Throw(c, "remove failed")
            /\ UNCHANGED disk
       ELSE /\ disk' = [disk EXCEPT ![procs[c].path] = Absent]
            /\ procs' = Return(c)
    /\ UNCHANGED <<dirs, vault, nextId, orig>>
    /\ UNCHANGED lister
    /\ UNCHANGED scanVars
    /\ UNCHANGED watchVars
    /\ UNCHANGED probe
    /\ UNCHANGED dbVars

(***************************************************************************)
(* restoreFile(quarantineId), one action per await.                        *)
(***************************************************************************)
\* The ids a caller can name: those a quarantineFile call has returned (or
\* thrown on), and 0, which never is an id.  An id is made of Date.now() and
\* random bytes and reaches a caller only in the result of the call.
KnownIds ==
    {i \in 1..(nextId - 1) :
        \A o \in Callers : ~(procs[o].op = "quarantine" /\ procs[o].pc # "done"
                                /\ procs[o].id = i)}
    \cup {0}

RestoreCall(c, id) ==
    /\ Free(c)
    /\ procs' = [procs EXCEPT ![c] = [NewProc EXCEPT !.op = "restore",
                                        !.pc = "r_metaExists", !.id = id]]
    /\ UNCHANGED <<disk, dirs, vault, nextId, orig>>
    /\ UNCHANGED lister
    /\ UNCHANGED scanVars
    /\ UNCHANGED watchVars
    /\ UNCHANGED probe
    /\ UNCHANGED dbVars

\* !await fs.pathExists(metadataPath) || ...
RestoreMetaExists(c) ==
    /\ procs[c].pc = "r_metaExists"
    /\ procs' = IF procs[c].id \in DOMAIN vault.meta
                THEN [procs EXCEPT ![c].pc = "r_quarExists"]
                ELSE Throw(c, "Quarantined file not found")
    /\ UNCHANGED <<disk, dirs, vault, nextId, orig>>
    /\ UNCHANGED lister
    /\ UNCHANGED scanVars
    /\ UNCHANGED watchVars
    /\ UNCHANGED probe
    /\ UNCHANGED dbVars

\* restoreFile that tests the metadata alone.
RestoreQuarExistsUntested(c) ==
    /\ procs[c].pc = "r_quarExists"
    /\ procs' = [procs EXCEPT ![c].pc = "r_readMeta"]
    /\ UNCHANGED <<disk, dirs, vault, nextId, orig>>
    /\ UNCHANGED lister
    /\ UNCHANGED scanVars
    /\ UNCHANGED watchVars
    /\ UNCHANGED probe
    /\ UNCHANGED dbVars

\* ... || !await fs.pathExists(quarantineFilePath)
RestoreQuarExists(c) ==
    /\ procs[c].pc = "r_quarExists"
    /\ procs' = IF procs[c].id \in DOMAIN vault.quar
                THEN [procs EXCEPT ![c].pc = "r_readMeta"]
                ELSE Throw(c, "Quarantined file not found")
    /\ UNCHANGED <<disk, dirs, vault, nextId, orig>>
    /\ UNCHANGED lister
    /\ UNCHANGED scanVars
    /\ UNCHANGED watchVars
    /\ UNCHANGED probe
    /\ UNCHANGED dbVars

\* await fs.readJson(metadataPath)
RestoreReadMeta(c, fails) ==
    /\ procs[c].pc = "r_readMeta"
    /\ procs' = IF fails \/ procs[c].id \notin DOMAIN vault.meta
                THEN Throw(c, "read failed")
                ELSE [procs EXCEPT ![c].pc = "r_readQuar",
                                   ![c].meta = vault.meta[procs[c].id]]
    /\ UNCHANGED <<disk, dirs, vault, nextId, orig>>
    /\ UNCHANGED lister
    /\ UNCHANGED scanVars
    /\ UNCHANGED watchVars
    /\ UNCHANGED probe
    /\ UNCHANGED dbVars

\* await fs.readFile(quarantineFilePath); this.decryptFile(encryptedContent);
\* let restorePath = metadata.originalPath
RestoreReadQuar(c, fails) ==
    /\ procs[c].pc = "r_readQuar"
    /\ procs' =
         IF fails \/ procs[c].id \notin DOMAIN vault.quar
         THEN Throw(c, "read failed")
         ELSE LET enc == vault.quar[procs[c].id]
                  dec == DecryptFile(enc)
              IN IF ~dec.ok THEN Throw(c, "bad decrypt")
                 ELSE [procs EXCEPT ![c].pc = "r_dirExists", ![c].cipher = enc,
                                    ![c].plain = dec.bytes,
                                    ![c].restorePath = procs[c].meta.originalPath]
    /\ UNCHANGED <<disk, dirs, vault, nextId, orig>>
    /\ UNCHANGED lister
    /\ UNCHANGED scanVars
    /\ UNCHANGED watchVars
    /\ UNCHANGED probe
    /\ UNCHANGED dbVars

\* if (!await fs.pathExists(path.dirname(restorePath))) restorePath = <Desktop>
RestoreDirExists(c) ==
    /\ procs[c].pc = "r_dirExists"
    /\ procs' = [procs EXCEPT
                   ![c].pc = "r_writeFile",
                   ![c].restorePath = IF @.dir \in dirs THEN @
                                      ELSE FallbackPath(procs[c].meta.fileName)]
    /\ UNCHANGED <<disk, dirs, vault, nextId, orig>>
    /\ UNCHANGED lister
    /\ UNCHANGED scanVars
    /\ UNCHANGED watchVars
    /\ UNCHANGED probe
    /\ UNCHANGED dbVars

\* restoreFile that removes the ciphertext while the plaintext is being written.
RestoreWriteFileRemovesEarly(c, fails) ==
    /\ procs[c].pc = "r_writeFile"
    /\ vault' = [vault EXCEPT !.quar = Without(@, procs[c].id)]
    /\ IF fails \/ procs[c].restorePath.dir \notin dirs
       THEN /\ procs' = Throw(c, "write failed")
            /\ UNCHANGED disk
       ELSE /\ disk' = [disk EXCEPT ![procs[c].restorePath] = Present(procs[c].plain)]
            /\ procs' = [procs EXCEPT ![c].pc = "r_removeMeta", ![c].wrotePlain = TRUE]
    /\ UNCHANGED <<dirs, nextId, orig>>
    /\ UNCHANGED lister
    /\ UNCHANGED scanVars
    /\ UNCHANGED watchVars
    /\ UNCHANGED probe
    /\ UNCHANGED dbVars

\* await fs.writeFile(restorePath, decryptedContent)
RestoreWriteFile(c, fails) ==
    /\ procs[c].pc = "r_writeFile"
    /\ IF fails \/ procs[c].restorePath.dir \notin dirs
       THEN /\ procs' = Throw(c, "write failed")
            /\ UNCHANGED disk
       ELSE /\ disk' = [disk EXCEPT ![procs[c].restorePath] = Present(procs[c].plain)]
            /\ procs' = [procs EXCEPT ![c].pc = "r_removeQuar", ![c].wrotePlain = TRUE]
    /\ UNCHANGED <<dirs, vault, nextId, orig>>
    /\ UNCHANGED lister
    /\ UNCHANGED scanVars
    /\ UNCHANGED watchVars
    /\ UNCHANGED probe
    /\ UNCHANGED dbVars

\* await fs.remove(quarantineFilePath)
RestoreRemoveQuar(c, fails) ==
    /\ procs[c].pc = "r_removeQuar"
    /\ IF fails
       THEN /\ procs' = Throw(c, "remove failed")
            /\ UNCHANGED vault
       ELSE /\ vault' = [vault EXCEPT !.quar = Without(@, procs[c].id)]
            /\ procs' = [procs EXCEPT ![c].pc = "r_removeMeta"]
    /\ UNCHANGED <<disk, dirs, nextId, orig>>
    /\ UNCHANGED lister
    /\ UNCHANGED scanVars
    /\ UNCHANGED watchVars
    /\ UNCHANGED probe
    /\ UNCHANGED dbVars

\* await fs.remove(metadataPath); return { success: true, restoredPath, message }
RestoreRemoveMeta(c, fails) ==
    /\ procs[c].pc = "r_removeMeta"
    /\ IF fails
       THEN /\ procs' = Throw(c, "remove failed")
            /\ UNCHANGED vault
       ELSE /\ vault' = [vault EXCEPT !.meta = Without(@, procs[c].id)]
            /\ procs' = Return(c)
    /\ UNCHANGED <<disk, dirs, nextId, orig>>
    /\ UNCHANGED lister
    /\ UNCHANGED scanVars
    /\ UNCHANGED watchVars
    /\ UNCHANGED probe
    /\ UNCHANGED dbVars

(***************************************************************************)
(* permanentDelete(quarantineId), one action per await.                    *)
(***************************************************************************)
DeleteCall(c, id) ==
    /\ Free(c)
    /\ procs' = [procs EXCEPT ![c] = [NewProc EXCEPT !.op = "delete",
                                        !.pc = "d_quarExists", !.id = id]]
    /\ UNCHANGED <<disk, dirs, vault, nextId, orig>>
    /\ UNCHANGED lister
    /\ UNCHANGED scanVars
    /\ UNCHANGED watchVars
    /\ UNCHANGED probe
    /\ UNCHANGED dbVars

\* if (await fs.pathExists(quarantineFilePath))
DeleteQuarExists(c) ==
    /\ procs[c].pc = "d_quarExists"
    /\ procs' = [procs EXCEPT ![c].pc = IF procs[c].id \in DOMAIN vault.quar
                                         THEN "d_removeQuar" ELSE "d_metaExists"]
    /\ UNCHANGED <<disk, dirs, vault, nextId, orig>>
    /\ UNCHANGED lister
    /\ UNCHANGED scanVars
    /\ UNCHANGED watchVars
    /\ UNCHANGED probe
    /\ UNCHANGED dbVars

\* await fs.remove(quarantineFilePath)
DeleteRemoveQuar(c, fails) ==
    /\ procs[c].pc = "d_removeQuar"
    /\ IF fails
       THEN /\ procs' = Throw(c, "remove failed")
            /\ UNCHANGED vault
       ELSE /\ vault' = [vault EXCEPT !.quar = Without(@, procs[c].id)]
            /\ procs' = [procs EXCEPT ![c].pc = "d_metaExists"]
    /\ UNCHANGED <<disk, dirs, nextId, orig>>
    /\ UNCHANGED lister
    /\ UNCHANGED scanVars
    /\ UNCHANGED watchVars
    /\ UNCHANGED probe
    /\ UNCHANGED dbVars

\* permanentDelete that throws when the metadata is missing.
DeleteMetaExistsOrThrow(c) ==
    /\ procs[c].pc = "d_metaExists"
    /\ procs' = IF procs[c].id \in DOMAIN vault.meta
                THEN [procs EXCEPT ![c].pc = "d_removeMeta"]
                ELSE Throw(c, "Quarantined file not found")
    /\ UNCHANGED <<disk, dirs, vault, nextId, orig>>
    /\ UNCHANGED lister
    /\ UNCHANGED scanVars
    /\ UNCHANGED watchVars
    /\ UNCHANGED probe
    /\ UNCHANGED dbVars

\* if (await fs.pathExists(metadataPath)); with nothing to remove the call
\* returns { success: true }
DeleteMetaExists(c) ==
    /\ procs[c].pc = "d_metaExists"
    /\ procs' = IF procs[c].id \in DOMAIN vault.meta
                THEN [procs EXCEPT ![c].pc = "d_removeMeta"]
                ELSE Return(c)
    /\ UNCHANGED <<disk, dirs, vault, nextId, orig>>
    /\ UNCHANGED lister
    /\ UNCHANGED scanVars
    /\ UNCHANGED watchVars
    /\ UNCHANGED probe
    /\ UNCHANGED dbVars

\* await fs.remove(metadataPath); return { success: true, message }
DeleteRemoveMeta(c, fails) ==
    /\ procs[c].pc = "d_removeMeta"
    /\ IF fails
       THEN /\ procs' = Throw(c, "remove failed")
            /\ UNCHANGED vault
       ELSE /\ vault' = [vault EXCEPT !.meta = Without(@, procs[c].id)]
            /\ procs' = Return(c)
    /\ UNCHANGED <<disk, dirs, nextId, orig>>
    /\ UNCHANGED lister
    /\ UNCHANGED scanVars
    /\ UNCHANGED watchVars
    /\ UNCHANGED probe
    /\ UNCHANGED dbVars

\* The environment: a directory of user files is removed with its files.
DirectoryRemoved(d) ==
    /\ d \in dirs
    /\ \E p \in UserPaths : p.dir = d
    /\ dirs' = dirs \ {d}
    /\ disk' = [p \in AllPaths |-> IF p.dir = d THEN Absent ELSE disk[p]]
    /\ UNCHANGED <<vault, procs, nextId, orig>>
    /\ UNCHANGED lister
    /\ UNCHANGED scanVars
    /\ UNCHANGED watchVars
    /\ UNCHANGED probe
    /\ UNCHANGED dbVars

(***************************************************************************)
(* getQuarantineList(), one action per await.  lister.pc is "idle",        *)
(* "readdir", "readJson" or "done"; seen is what readdir returned.         *)
(***************************************************************************)
NewLister == [pc |-> "idle", seen |-> {}, pending |-> <<>>, list |-> <<>>]

\* The ids of a set in ascending order (readdir's order of the .json names).
RECURSIVE Ascending(_)
Ascending(ids) ==
    IF ids = {} THEN <<>>
    ELSE LET least == CHOOSE x \in ids : \A y \in ids : x <= y
         IN <<least>> \o Ascending(ids \ {least})

\* quarantineList.sort((a, b) => new Date(b.quarantinedAt) - new Date(a.quarantinedAt)):
\* ids grow with the time of quarantine, the newest record comes first.
RECURSIVE NewestFirst(_)
NewestFirst(list) ==
    IF list = <<>> THEN <<>>
    ELSE LET k == CHOOSE i \in 1..Len(list) : \A j \in 1..Len(list) : list[j].id <= list[i].id
         IN <<list[k]>> \o NewestFirst([i \in 1..(Len(list) - 1) |->
                                          IF i < k THEN list[i] ELSE list[i + 1]])

ListCall ==
    /\ lister.pc \in {"idle", "done"}
    /\ lister' = [NewLister EXCEPT !.pc = "readdir"]
    /\ UNCHANGED <<disk, dirs, vault, procs, nextId, orig>>
    /\ UNCHANGED scanVars
    /\ UNCHANGED watchVars
    /\ UNCHANGED probe
    /\ UNCHANGED dbVars

\* const files = await fs.readdir(this.quarantinePath); filter on '.json'
ListReaddir ==
    /\ lister.pc = "readdir"
    /\ lister' = LET ids == DOMAIN vault.meta
                 IN [lister EXCEPT !.seen = ids, !.pending = Ascending(ids),
                                   !.pc = IF ids = {} THEN "done" ELSE "readJson"]
    /\ UNCHANGED <<disk, dirs, vault, procs, nextId, orig>>
    /\ UNCHANGED scanVars
    /\ UNCHANGED watchVars
    /\ UNCHANGED probe
    /\ UNCHANGED dbVars

\* const metadata = await fs.readJson(metadataPath); quarantineList.push(metadata).
\* A rejected readJson leaves the loop for the catch block: return [].
ListReadJson ==
    /\ lister.pc = "readJson"
    /\ lister' =
         LET id == Head(lister.pending)
         IN IF id \notin DOMAIN vault.meta
            THEN [lister EXCEPT !.pc = "done", !.pending = <<>>, !.list = <<>>]
            ELSE LET got == Append(lister.list, vault.meta[id])
                 IN IF Tail(lister.pending) = <<>>
                    THEN [lister EXCEPT !.pc = "done", !.pending = <<>>,
                                        !.list = NewestFirst(got)]
                    ELSE [lister EXCEPT !.pending = Tail(@), !.list = got]
    /\ UNCHANGED <<disk, dirs, vault, procs, nextId, orig>>
    /\ UNCHANGED scanVars
    /\ UNCHANGED watchVars
    /\ UNCHANGED probe
    /\ UNCHANGED dbVars

(***************************************************************************)
(* FileWatcher.  Every start() that passes its guard calls processQueue(), *)
(* whose loop stays alive until it next sees watching = false; loops[l].pc *)
(* is "dead" (no such loop), "sleep" (await this.sleep(500)) or "scan"     *)
(* (await this.scanAndHandle(filePath)).                                   *)
(***************************************************************************)
WatchedFiles == {"Downloads/x.exe", "Downloads/y.exe", "Desktop/z.js"}
LoopIds == 1..MaxLoops
ScanAndHandleOutcomes == {"clean", "quarantined", "detected", "error"}

\* scanAndHandle: no threat; threat and quarantineFile succeeded; threat and
\* quarantineFile threw; scanFile threw.
\* A scanAndHandle whose catch of a failed quarantine emits nothing.
EventOfSilentFailure(outcome) ==
    IF outcome = "quarantined" THEN "threat-quarantined" ELSE "none"

EventOf(outcome) ==
    CASE outcome = "quarantined" -> "threat-quarantined"
      [] outcome = "detected" -> "threat-detected"
      [] OTHER -> "none"

\* An exception was raised while the path was processed: scanFile threw, or
\* quarantineFile did.
Raised(outcome) == outcome \in {"error", "detected"}
\* lastEvent: the event the last settled scanAndHandle emitted; lastRaised:
\* whether an exception was raised in it.
NewWatcher ==
    [watching |-> FALSE, open |-> FALSE, scanQueue |-> <<>>, processing |-> FALSE,
     lastEvent |-> "none", lastRaised |-> FALSE, lastOutcome |-> "none"]
DeadLoop == [pc |-> "dead", path |-> ""]

InQueue(q, path) == \E k \in 1..Len(q) : q[k] = path

\* The queue test without the processing flag.
CanTakeIgnoringProcessing(w) == Len(w.scanQueue) > 0

\* if (this.scanQueue.size > 0 && !this.processing)
CanTake(w) == Len(w.scanQueue) > 0 /\ ~w.processing

\* One pass of while (this.watching) { ... } of loop l, run to its next await.
LoopPass(w, ls, l) ==
    IF ~w.watching
    THEN [watcher |-> w, loops |-> [ls EXCEPT ![l] = DeadLoop]]
    ELSE IF CanTake(w)
    THEN [watcher |-> [w EXCEPT !.processing = TRUE, !.scanQueue = Tail(@)],
          loops |-> [ls EXCEPT ![l] = [pc |-> "scan", path |-> Head(w.scanQueue)]]]
    ELSE [watcher |-> w, loops |-> [ls EXCEPT ![l] = [pc |-> "sleep", path |-> ""]]]

\* start(): a second start() while watching returns at once.
WatcherStart ==
    /\ \/ watcher.watching
       \/ \E l \in LoopIds : loops[l].pc = "dead"
    /\ IF watcher.watching
       THEN UNCHANGED <<watcher, loops>>
       ELSE LET l == CHOOSE x \in LoopIds : loops[x].pc = "dead"
                r == LoopPass([watcher EXCEPT !.open = TRUE, !.watching = TRUE],
                              loops, l)
            IN /\ watcher' = r.watcher
               /\ loops' = r.loops
    /\ UNCHANGED fileWatcher
    /\ UNCHANGED scanVars
    /\ UNCHANGED probe
    /\ UNCHANGED dbVars
    /\ UNCHANGED quarVars

\* stop()
WatcherStop ==
    /\ watcher' = [watcher EXCEPT !.open = FALSE, !.watching = FALSE,
                                  !.scanQueue = <<>>]
    /\ UNCHANGED loops
    /\ UNCHANGED fileWatcher
    /\ UNCHANGED scanVars
    /\ UNCHANGED probe
    /\ UNCHANGED dbVars
    /\ UNCHANGED quarVars

\* chokidar's 'add' / 'change' event: handleFileChange adds to the Set.
HandleFileChange(path) ==
    /\ watcher.open
    /\ watcher' = [watcher EXCEPT !.scanQueue =
                     IF InQueue(@, path) THEN @ ELSE Append(@, path)]
    /\ UNCHANGED loops
    /\ UNCHANGED fileWatcher
    /\ UNCHANGED scanVars
    /\ UNCHANGED probe
    /\ UNCHANGED dbVars
    /\ UNCHANGED quarVars

\* The sleep of loop l elapses and the loop makes its next pass.
LoopWake(l) ==
    /\ loops[l].pc = "sleep"
    /\ LET r == LoopPass(watcher, loops, l)
       IN /\ watcher' = r.watcher
          /\ loops' = r.loops
    /\ UNCHANGED fileWatcher
    /\ UNCHANGED scanVars
    /\ UNCHANGED probe
    /\ UNCHANGED dbVars
    /\ UNCHANGED quarVars

\* scanAndHandle of a processQueue without try / catch: an exception raised in
\* it ends the loop before this.processing = false.
ScanAndHandleDoneUncaught(l, outcome) ==
    /\ loops[l].pc = "scan"
    /\ watcher' = [watcher EXCEPT !.processing = Raised(outcome),
                                  !.lastEvent = EventOf(outcome),
                                  !.lastRaised = Raised(outcome),
                                  !.lastOutcome = outcome]
    /\ loops' = [loops EXCEPT ![l] = IF Raised(outcome) THEN DeadLoop
                                     ELSE [pc |-> "sleep", path |-> ""]]
    /\ UNCHANGED fileWatcher
    /\ UNCHANGED scanVars
    /\ UNCHANGED probe
    /\ UNCHANGED dbVars
    /\ UNCHANGED quarVars
\* scanAndHandle of loop l settles (its own try / catch and the one around
\* the call absorb every outcome); processing is released and the loop sleeps.
ScanAndHandleDone(l, outcome) ==
    /\ loops[l].pc = "scan"
    /\ watcher' = [watcher EXCEPT !.processing = FALSE, !.lastEvent = EventOf(outcome),
                                  !.lastRaised = Raised(outcome),
                                  !.lastOutcome = outcome]
    /\ loops' = [loops EXCEPT ![l] = [pc |-> "sleep", path |-> ""]]
    /\ UNCHANGED fileWatcher
    /\ UNCHANGED scanVars
    /\ UNCHANGED probe
    /\ UNCHANGED dbVars
    /\ UNCHANGED quarVars

(***************************************************************************)
(* The main process: toggleRealTimeProtection.  Every toggle(true) that    *)
(* finds fileWatcher null makes a new FileWatcher; the loops of the        *)
(* FileWatcher it replaces belong to an object that stop() has been called *)
(* on and that nothing refers to any more:                                 *)
(*   "orphanSleep"  such a loop in await this.sleep(500)                   *)
(*   "orphanScan"   such a loop in await this.scanAndHandle(filePath)      *)
(***************************************************************************)
Orphaned(ls) ==
    [l \in LoopIds |->
        CASE ls[l].pc = "sleep" -> [pc |-> "orphanSleep", path |-> ""]
          [] ls[l].pc = "scan"  -> [pc |-> "orphanScan", path |-> ls[l].path]
          [] OTHER -> ls[l]]

\* toggleRealTimeProtection(true)
ToggleOn ==
    /\ \/ fileWatcher
       \/ \E l \in LoopIds : loops[l].pc = "dead"
    /\ IF fileWatcher
       THEN UNCHANGED <<watcher, loops, fileWatcher>>
       ELSE LET l == CHOOSE x \in LoopIds : loops[x].pc = "dead"
                r == LoopPass([NewWatcher EXCEPT !.open = TRUE, !.watching = TRUE],
                              Orphaned(loops), l)
            IN /\ watcher' = r.watcher
               /\ loops' = r.loops
               /\ fileWatcher' = TRUE
    /\ UNCHANGED scanVars
    /\ UNCHANGED probe
    /\ UNCHANGED dbVars
    /\ UNCHANGED quarVars

\* toggleRealTimeProtection(false) that drops the FileWatcher without stop().
ToggleOffWithoutStop ==
    /\ fileWatcher' = FALSE
    /\ UNCHANGED <<watcher, loops>>
    /\ UNCHANGED scanVars
    /\ UNCHANGED probe
    /\ UNCHANGED dbVars
    /\ UNCHANGED quarVars

\* toggleRealTimeProtection(false)
ToggleOff ==
    /\ IF fileWatcher
       THEN /\ watcher' = [watcher EXCEPT !.open = FALSE, !.watching = FALSE,
                                          !.scanQueue = <<>>]
            /\ fileWatcher' = FALSE
       ELSE UNCHANGED <<watcher, fileWatcher>>
    /\ UNCHANGED loops
    /\ UNCHANGED scanVars
    /\ UNCHANGED probe
    /\ UNCHANGED dbVars
    /\ UNCHANGED quarVars

\* The sleep of a loop of a discarded FileWatcher elapses: while (this.watching)
\* is false for its object and the loop returns.
OrphanWake(l) ==
    /\ loops[l].pc = "orphanSleep"
    /\ loops' = [loops EXCEPT ![l] = DeadLoop]
    /\ UNCHANGED <<watcher, fileWatcher>>
    /\ UNCHANGED scanVars
    /\ UNCHANGED probe
    /\ UNCHANGED dbVars
    /\ UNCHANGED quarVars

\* The scanAndHandle of a loop of a discarded FileWatcher settles; its events
\* have no listener (removeAllListeners) and it releases its own object's flag.
OrphanScanDone(l) ==
    /\ loops[l].pc = "orphanScan"
    /\ loops' = [loops EXCEPT ![l] = [pc |-> "orphanSleep", path |-> ""]]
    /\ UNCHANGED <<watcher, fileWatcher>>
    /\ UNCHANGED scanVars
    /\ UNCHANGED probe
    /\ UNCHANGED dbVars
    /\ UNCHANGED quarVars

(***************************************************************************)
(* Direct calls of HeuristicAnalyzer.analyze, of SignatureDetector and of  *)
(* ThreatDatabase.initialize, one call per step.  probe holds the call     *)
(* made last and what it returned.                                         *)
(***************************************************************************)
Sensitivities == {"low", "medium", "high"}
MzBytes == <<SymMZ, SymFill>>
NoResult == [found |-> FALSE, method |-> "", info |-> NoInfo]
NewProbe(sensitivity) ==
    [op |-> "none", file |-> CleanDoc, sensitivity |-> sensitivity, score |-> 0,
     result |-> NoResult]

\* The files analyze is called on: every combination of what the checks look
\* at.  A double extension ends in an executable or script extension.
HeurFiles ==
    {f \in [path : {"probe"}, dir : {"Documents", "Downloads"},
            ext : {".exe", ".dll", ".bat", ".ps1", ".docx"},
            size : {512, 20480, 2097152}, bytes : {CleanBytes, MzBytes},
            statErr : {"none"}, readErr : {"none"},
            nameHit : BOOLEAN, hiddenOrSystem : BOOLEAN, doubleExt : BOOLEAN] :
        f.doubleExt => f.ext \in {".exe", ".bat"}}

\* await heuristicAnalyzer.analyze(filePath, stats)
HeurAnalyze(f) ==
    /\ probe' = [probe EXCEPT !.op = "analyze", !.file = f,
                              !.score = SuspicionScore(f),
                              !.result = AnalyzeAt(f, probe.sensitivity)]
    /\ UNCHANGED scanVars
    /\ UNCHANGED quarVars
    /\ UNCHANGED watchVars
    /\ UNCHANGED dbVars

\* A second pattern of the catalog: an extension, anything, then a command word.
DropperSig ==
    [name |-> "Dropper.Chain", type |-> "trojan", severity |-> "critical",
     pattern |-> [first |-> SymExt, last |-> SymCmd],
     description |-> "Dropped file that downloads"]
\* The database file with the dropper pattern ahead of the seeded one.
TwoPatternDbFile ==
    [exists |-> TRUE,
     data |-> [EmptyData EXCEPT
                 !.hash_signatures = <<EicarMd5Sig, EicarSha256Sig>>,
                 !.pattern_signatures = <<DropperSig, DownloaderSig>>]]
\* The database file with its hash signatures emptied and the seeded pattern kept.
PatternOnlyDbFile ==
    [exists |-> TRUE,
     data |-> [EmptyData EXCEPT !.pattern_signatures = <<DownloaderSig>>]]
DetectDbFiles == InitialDbFiles \cup {TwoPatternDbFile, PatternOnlyDbFile}

\* Byte strings of up to n bytes that are fill, command words and extensions.
ContentsUpTo(n) == UNION {[1..k -> {SymFill, SymCmd, SymExt}] : k \in 0..n}
\* The files the detector is called on: a script and a document of each content.
DetectFiles ==
    {File("probe", "Documents", e, 512, b) :
        e \in {".ps1", ".docx"}, b \in ContentsUpTo(MaxContent)}

\* await db.initialize()
InitializeCall ==
    /\ LET r == Initialize(db, dbFile)
       IN db' = r.db /\ dbFile' = r.file
    /\ UNCHANGED <<scanner, detector, hist>>
    /\ UNCHANGED quarVars
    /\ UNCHANGED watchVars
    /\ UNCHANGED probe
    /\ UNCHANGED dbVars

\* The application starts again: new ThreatDatabase() and new SignatureDetector().
NewInstances ==
    /\ db.initialized
    /\ db' = [initialized |-> FALSE, data |-> EmptyData]
    /\ detector' = NewDetector
    /\ UNCHANGED <<scanner, dbFile, hist>>
    /\ UNCHANGED quarVars
    /\ UNCHANGED watchVars
    /\ UNCHANGED probe
    /\ UNCHANGED dbVars

\* await detector.loadSignatures(), after the scanner initialized the database
LoadSignaturesCall ==
    /\ db.initialized
    /\ detector' = LoadSignatures(detector, db.data)
    /\ UNCHANGED <<scanner, db, dbFile, hist>>
    /\ UNCHANGED quarVars
    /\ UNCHANGED watchVars
    /\ UNCHANGED probe
    /\ UNCHANGED dbVars

\* await detector.checkPatternSignatures(filePath)
CheckPatternCall(f) ==
    /\ detector.signaturesLoaded
    /\ LET r == CheckPatternSignatures(detector, f)
       IN /\ detector' = [detector EXCEPT !.patterns = r.patterns]
          /\ probe' = [probe EXCEPT !.op = "check", !.file = f, !.score = 0,
                         !.result = [found |-> r.found, method |-> "", info |-> r.info]]
    /\ UNCHANGED <<scanner, db, dbFile, hist>>
    /\ UNCHANGED quarVars
    /\ UNCHANGED watchVars
    /\ UNCHANGED dbVars

\* await detector.detect(filePath, hashes), as scanFile calls it
DetectCall(f) ==
    /\ db.initialized
    /\ LET loaded == LoadSignatures(detector, db.data)
           r      == Detect(loaded, f, GenerateAllHashes(f.bytes))
       IN /\ detector' = [loaded EXCEPT !.patterns = r.patterns]
          /\ probe' = [probe EXCEPT !.op = "detect", !.file = f, !.score = 0,
                         !.result = [found |-> r.found, method |-> r.method,
                                     info |-> r.info]]
    /\ UNCHANGED <<scanner, db, dbFile, hist>>
    /\ UNCHANGED quarVars
    /\ UNCHANGED watchVars
    /\ UNCHANGED dbVars

(***************************************************************************)
(* ThreatDatabase instances.  Every FileScanner makes its own instance     *)
(* (one per start-scan request, one inside the FileWatcher) and the main   *)
(* process holds one for get-scan-history and get-statistics; all of them  *)
(* load and save the same file.  save() writes the whole of this.data.     *)
(***************************************************************************)
ScanOwners == {"scanA", "scanB"}
DbOwners == ScanOwners \cup {"main", "watcher"}

\* options.type of the two start-scan requests, and the files each scan counts.
ScanTypeOf(s) == IF s = "scanA" THEN "quick" ELSE "custom"
FilesOf(s) == IF s = "scanA" THEN 1 ELSE 2

NewInstance == [initialized |-> FALSE, data |-> EmptyData]
\* pc: "idle", "initialize" (await this.db.initialize()), "running", "done";
\* slot: the index in the instance's scan_history of the session it pushed.
NewSession == [pc |-> "idle", scanId |-> 0, slot |-> 0, threats |-> 0]
NoReply ==
    [kind |-> "none", history |-> <<>>, totalScans |-> 0, totalThreats |-> 0,
     totalFilesScanned |-> 0, completed |-> {}, served |-> 0]

DbIdle ==
    /\ dbs = [o \in DbOwners |-> NewInstance]
    /\ now = ScanStartTime
    /\ sessions = [s \in ScanOwners |-> NewSession]
    /\ reply = NoReply

\* await fs.writeJson(this.dbPath, this.data, { spaces: 2 })
Save(data) == [exists |-> TRUE, data |-> data]

\* The threat handleThreatFound reports for the EICAR test file.
SampleThreat == MakeThreat(EicarTxt, SigInfo(EicarMd5Sig), "signature")

\* reduce((sum, s) => sum + (s.files_scanned || 0), 0)
RECURSIVE TotalFilesScanned(_)
TotalFilesScanned(history) ==
    IF history = <<>> THEN 0
    ELSE Head(history).files_scanned + TotalFilesScanned(Tail(history))

\* start-scan: const scanner = new FileScanner(); scanner.scan(options)
StartScanRequest(s) ==
    /\ sessions[s].pc = "idle"
    /\ dbs' = [dbs EXCEPT ![s] = NewInstance]
    /\ sessions' = [sessions EXCEPT ![s].pc = "initialize"]
    /\ UNCHANGED <<now, reply>>
    /\ UNCHANGED scanVars
    /\ UNCHANGED quarVars
    /\ UNCHANGED watchVars
    /\ UNCHANGED probe

\* await this.db.initialize(); this.scanId = await this.db.recordScanStart(type)
ScanSessionStarted(s) ==
    /\ sessions[s].pc = "initialize"
    /\ LET r    == Initialize(dbs[s], dbFile)
           data == RecordScanStartAt(r.db.data, ScanTypeOf(s), now)
       IN /\ dbs' = [dbs EXCEPT ![s] = [initialized |-> TRUE, data |-> data]]
          /\ dbFile' = Save(data)
          /\ sessions' = [sessions EXCEPT ![s].pc = "running", ![s].scanId = now,
                                          ![s].slot = Len(data.scan_history)]
    /\ UNCHANGED <<now, reply>>
    /\ UNCHANGED <<scanner, db, detector, hist>>
    /\ UNCHANGED quarVars
    /\ UNCHANGED watchVars
    /\ UNCHANGED probe

\* handleThreatFound: this.db.recordThreatDetection(this.scanId, ...)
ScanThreatRecorded(s) ==
    /\ sessions[s].pc = "running"
    /\ sessions[s].threats < MaxDetections
    /\ LET data == RecordThreatDetection(dbs[s].data, sessions[s].scanId, SampleThreat)
       IN /\ dbs' = [dbs EXCEPT ![s].data = data]
          /\ dbFile' = Save(data)
    /\ sessions' = [sessions EXCEPT ![s].threats = @ + 1]
    /\ UNCHANGED <<now, reply>>
    /\ UNCHANGED <<scanner, db, detector, hist>>
    /\ UNCHANGED quarVars
    /\ UNCHANGED watchVars
    /\ UNCHANGED probe

\* await this.db.recordScanComplete(this.scanId, filesScanned, threatsFound, duration)
ScanSessionCompleted(s) ==
    /\ sessions[s].pc = "running"
    /\ LET data == RecordScanComplete(dbs[s].data, sessions[s].scanId, FilesOf(s),
                                      sessions[s].threats)
       IN /\ dbs' = [dbs EXCEPT ![s].data = data]
          /\ dbFile' = IF FindScan(dbs[s].data.scan_history, sessions[s].scanId) # 0
                       THEN Save(data) ELSE dbFile
    /\ sessions' = [sessions EXCEPT ![s].pc = "done"]
    /\ UNCHANGED <<now, reply>>
    /\ UNCHANGED <<scanner, db, detector, hist>>
    /\ UNCHANGED quarVars
    /\ UNCHANGED watchVars
    /\ UNCHANGED probe

\* FileWatcher.scanAndHandle -> this.scanner.scanFile: await this.db.initialize()
WatcherDbInitialized ==
    /\ ~dbs["watcher"].initialized
    /\ LET r == Initialize(dbs["watcher"], dbFile)
       IN /\ dbs' = [dbs EXCEPT !["watcher"] = r.db]
          /\ dbFile' = r.file
    /\ UNCHANGED <<now, sessions, reply>>
    /\ UNCHANGED <<scanner, db, detector, hist>>
    /\ UNCHANGED quarVars
    /\ UNCHANGED watchVars
    /\ UNCHANGED probe

\* The watcher's scanFile finds a threat: handleThreatFound of a FileScanner
\* whose scan() was never called (this.scanId is undefined, 0 here).
WatcherThreatRecorded ==
    /\ dbs["watcher"].initialized
    /\ Len(dbs["watcher"].data.threat_detections) < MaxDetections
    /\ LET data == RecordThreatDetection(dbs["watcher"].data, 0, SampleThreat)
       IN /\ dbs' = [dbs EXCEPT !["watcher"].data = data]
          /\ dbFile' = Save(data)
    /\ UNCHANGED <<now, sessions, reply>>
    /\ UNCHANGED <<scanner, db, detector, hist>>
    /\ UNCHANGED quarVars
    /\ UNCHANGED watchVars
    /\ UNCHANGED probe

\* get-scan-history / get-statistics: await db.initialize(); return
\* db.getScanHistory() / db.getStatistics(), on the main process's instance.
\* completed: the scans that had completed when the request was served.
HistoryRequest(kind) ==
    /\ reply.served < MaxRequests
    /\ LET r == Initialize(dbs["main"], dbFile)
       IN /\ dbs' = [dbs EXCEPT !["main"] = r.db]
          /\ dbFile' = r.file
          /\ reply' = [kind |-> kind,
                       history |-> NewestFirst(r.db.data.scan_history),
                       totalScans |-> Len(r.db.data.scan_history),
                       totalThreats |-> Len(r.db.data.threat_detections),
                       totalFilesScanned |-> TotalFilesScanned(r.db.data.scan_history),
                       completed |-> {s \in ScanOwners : sessions[s].pc = "done"},
                       served |-> reply.served + 1]
    /\ UNCHANGED <<now, sessions>>
    /\ UNCHANGED <<scanner, db, detector, hist>>
    /\ UNCHANGED quarVars
    /\ UNCHANGED watchVars
    /\ UNCHANGED probe

\* A millisecond passes.
Tick ==
    /\ now < MaxClock
    /\ now' = now + 1
    /\ UNCHANGED <<dbs, sessions, reply>>
    /\ UNCHANGED scanVars
    /\ UNCHANGED quarVars
    /\ UNCHANGED watchVars
    /\ UNCHANGED probe

(***************************************************************************)
(* Initial states and specifications.                                      *)
(***************************************************************************)
ScanInit ==
    /\ scanner = NewScanner
    /\ db = [initialized |-> FALSE, data |-> EmptyData]
    /\ dbFile \in InitialDbFiles
    /\ detector = NewDetector
    /\ hist = NewHist

ScanIdle ==
    /\ scanner = NewScanner
    /\ db = [initialized |-> FALSE, data |-> EmptyData]
    /\ dbFile = NoDbFile
    /\ detector = NewDetector
    /\ hist = NewHist

QuarInit ==
    /\ \E bytes \in FileContents :
         disk = [p \in AllPaths |-> IF p = PathA THEN Present(bytes) ELSE Absent]
    /\ dirs = Dirs
    /\ vault = [quar |-> <<>>, meta |-> <<>>]
    /\ procs = [c \in Callers |-> NewProc]
    /\ nextId = 1
    /\ orig = <<>>
    /\ lister = NewLister

\* A quarantine store that holds two records of a.exe, quarantined at two times
\* with contents BytesA and <<1>>.  The ciphertext of the second is as written,
\* or has one byte changed since, or was cut short.  Downloads, the Desktop
\* directory of the home directory, both or neither exist.
StockedContents == <<BytesA, <<1>>>>
StockedMeta(id) ==
    [NoMeta EXCEPT !.id = id, !.originalPath = PathA, !.fileName = PathA.name,
                   !.fileSize = Len(StockedContents[id]),
                   !.hash = Digest("sha256", StockedContents[id])]
Flipped(enc, k) == [enc EXCEPT ![k] = (@ + 1) % ByteMod]
StoredCiphers(content) ==
    {EncryptFile(content, iv) : iv \in IVs}
    \cup {Flipped(EncryptFile(content, 0), k) : k \in 1..(Len(content) + 2)}
    \cup {<<0>>}

StockedQuarInit ==
    /\ disk = [p \in AllPaths |-> Absent]
    /\ dirs \in SUBSET Dirs
    /\ \E enc \in StoredCiphers(StockedContents[2]) :
         vault = [quar |-> <<EncryptFile(StockedContents[1], 0), enc>>,
                  meta |-> <<StockedMeta(1), StockedMeta(2)>>]
    /\ procs = [c \in Callers |-> NewProc]
    /\ nextId = 3
    /\ orig = StockedContents
    /\ lister = NewLister

WatchInit ==
    /\ watcher = NewWatcher
    /\ loops = [l \in LoopIds |-> DeadLoop]
    /\ fileWatcher = FALSE

\* A scanner about to scan; the quarantine is idle, a.exe holds BytesA.
Init ==
    /\ ScanInit /\ QuarInit /\ disk[PathA].bytes = BytesA /\ WatchInit
    /\ probe = NewProbe(HeuristicSensitivity)
    /\ DbIdle
\* The database file is yet to be created.
IdleInit ==
    /\ ScanIdle /\ QuarInit /\ WatchInit
    /\ probe = NewProbe(HeuristicSensitivity)
    /\ DbIdle

\* The scan() call's own steps: the event loop runs them when their await settles.
ScanStep ==
    \/ ScanDbInitialize
    \/ ScanRecordStarted
    \/ \E files \in FileLists : ScanCollected(files)
    \/ ScanSleepWake
    \/ ScanFileDone
    \/ ScanCompleteSaved

ScanNext ==
    \/ \E type \in ScanTypes, paths \in PathLists : ScanCall(type, paths)
    \/ ScanStep
    \/ Pause
    \/ Resume
    \/ Stop

QuarNext ==
    \/ \E c \in Callers, path \in UserPaths : QuarantineCall(c, path)
    \/ \E c \in Callers : QuarantinePathExists(c)
    \/ \E c \in Callers, fails \in BOOLEAN : QuarantineStat(c, fails)
    \/ \E c \in Callers, fails \in BOOLEAN, iv \in IVs : QuarantineReadFile(c, fails, iv)
    \/ \E c \in Callers, fails \in BOOLEAN : QuarantineWriteQuar(c, fails)
    \/ \E c \in Callers, fails \in BOOLEAN : QuarantineWriteMeta(c, fails)
    \/ \E c \in Callers, fails \in BOOLEAN : QuarantineRemoveOriginal(c, fails)
    \/ \E c \in IpcCallers, id \in KnownIds : RestoreCall(c, id)
    \/ \E c \in Callers : RestoreMetaExists(c)
    \/ \E c \in Callers : RestoreQuarExists(c)
    \/ \E c \in Callers, fails \in BOOLEAN : RestoreReadMeta(c, fails)
    \/ \E c \in Callers, fails \in BOOLEAN : RestoreReadQuar(c, fails)
    \/ \E c \in Callers : RestoreDirExists(c)
    \/ \E c \in Callers, fails \in BOOLEAN : RestoreWriteFile(c, fails)
    \/ \E c \in Callers, fails \in BOOLEAN : RestoreRemoveQuar(c, fails)
    \/ \E c \in Callers, fails \in BOOLEAN : RestoreRemoveMeta(c, fails)
    \/ \E c \in IpcCallers, id \in KnownIds : DeleteCall(c, id)
    \/ \E c \in Callers : DeleteQuarExists(c)
    \/ \E c \in Callers, fails \in BOOLEAN : DeleteRemoveQuar(c, fails)
    \/ \E c \in Callers : DeleteMetaExists(c)
    \/ \E c \in Callers, fails \in BOOLEAN : DeleteRemoveMeta(c, fails)
    \/ \E d \in Dirs : DirectoryRemoved(d)

WatchNext ==
    \/ WatcherStart
    \/ WatcherStop
    \/ \E path \in WatchedFiles : HandleFileChange(path)
    \/ \E l \in LoopIds : LoopWake(l)
    \/ \E l \in LoopIds, outcome \in ScanAndHandleOutcomes : ScanAndHandleDone(l, outcome)

\* restoreFile, permanentDelete and getQuarantineList calls of the IPC handlers.
StoreNext ==
    \/ \E c \in IpcCallers, id \in KnownIds : RestoreCall(c, id)
    \/ \E c \in IpcCallers : RestoreMetaExists(c)
    \/ \E c \in IpcCallers : RestoreQuarExists(c)
    \/ \E c \in IpcCallers, fails \in BOOLEAN : RestoreReadMeta(c, fails)
    \/ \E c \in IpcCallers, fails \in BOOLEAN : RestoreReadQuar(c, fails)
    \/ \E c \in IpcCallers : RestoreDirExists(c)
    \/ \E c \in IpcCallers, fails \in BOOLEAN : RestoreWriteFile(c, fails)
    \/ \E c \in IpcCallers, fails \in BOOLEAN : RestoreRemoveQuar(c, fails)
    \/ \E c \in IpcCallers, fails \in BOOLEAN : RestoreRemoveMeta(c, fails)
    \/ \E c \in IpcCallers, id \in KnownIds : DeleteCall(c, id)
    \/ \E c \in IpcCallers : DeleteQuarExists(c)
    \/ \E c \in IpcCallers, fails \in BOOLEAN : DeleteRemoveQuar(c, fails)
    \/ \E c \in IpcCallers : DeleteMetaExists(c)
    \/ \E c \in IpcCallers, fails \in BOOLEAN : DeleteRemoveMeta(c, fails)
    \/ \E d \in Dirs : DirectoryRemoved(d)
    \/ ListCall
    \/ ListReaddir
    \/ ListReadJson

\* The watcher as the main process drives it.
ToggleLoopStep ==
    \/ \E l \in LoopIds : LoopWake(l)
    \/ \E l \in LoopIds, outcome \in ScanAndHandleOutcomes : ScanAndHandleDone(l, outcome)
    \/ \E l \in LoopIds : OrphanWake(l)
    \/ \E l \in LoopIds : OrphanScanDone(l)

ToggleNext ==
    \/ ToggleOn
    \/ ToggleOff
    \/ \E path \in WatchedFiles : HandleFileChange(path)
    \/ ToggleLoopStep

\* One scan of a FileScanner, with pause(), resume() and stop() at any time.
SpecScan == Init /\ [][ScanNext]_vars
\* A quick scan of a long list of files: notes.docx throughout, with gone.exe
\* (whose fs.stat fails) or eicar.txt (a threat) in at most one place.
LongFileLists ==
    {[k \in 1..n |-> IF k = odd THEN other ELSE CleanDoc] :
        n \in 0..MaxProgressFiles, odd \in 0..MaxProgressFiles,
        other \in {GoneExe, EicarTxt}}
ProgressNext ==
    \/ ScanCall("quick", <<>>)
    \/ ScanDbInitialize
    \/ ScanRecordStarted
    \/ \E files \in LongFileLists : ScanCollected(files)
    \/ ScanSleepWake
    \/ ScanFileDone
    \/ ScanCompleteSaved
    \/ Pause
    \/ Resume
    \/ Stop
SpecProgress == Init /\ [][ProgressNext]_vars
\* The same, with the event loop running every continuation that is ready.
FairSpecScan == SpecScan /\ WF_vars(ScanStep)
\* Concurrent quarantineFile / restoreFile / permanentDelete calls.
SpecQuar == IdleInit /\ [][QuarNext]_vars
\* One FileWatcher under start(), stop() and file events.
SpecWatch == IdleInit /\ [][WatchNext]_vars

\* Calls on a quarantine store that holds two records.
StockedInit ==
    /\ ScanIdle /\ StockedQuarInit /\ WatchInit
    /\ probe = NewProbe(HeuristicSensitivity)
    /\ DbIdle
SpecStore == StockedInit /\ [][StoreNext]_vars
\* The watcher, with the event loop running every loop whose await has settled.
FairSpecWatch ==
    /\ IdleInit /\ [][WatchNext]_vars
    /\ \A l \in LoopIds :
         /\ WF_vars(LoopWake(l))
         /\ WF_vars(\E outcome \in ScanAndHandleOutcomes : ScanAndHandleDone(l, outcome))
\* toggleRealTimeProtection calls, file events and the loops of the watchers made.
SpecToggle == IdleInit /\ [][ToggleNext]_vars
\* The same, with the event loop running every loop whose await has settled.
FairSpecToggle ==
    /\ SpecToggle
    /\ \A l \in LoopIds :
         /\ WF_vars(LoopWake(l))
         /\ WF_vars(\E outcome \in ScanAndHandleOutcomes : ScanAndHandleDone(l, outcome))
         /\ WF_vars(OrphanWake(l))
         /\ WF_vars(OrphanScanDone(l))
\* An analyzer of each sensitivity, and the files it is asked about.
HeurInit ==
    /\ ScanIdle /\ QuarInit /\ disk[PathA].bytes = BytesA /\ WatchInit
    /\ \E s \in Sensitivities : probe = NewProbe(s)
    /\ DbIdle
HeurNext == \E f \in HeurFiles : HeurAnalyze(f)
SpecHeur == HeurInit /\ [][HeurNext]_vars
\* A database and a detector, over each database file, and the calls made to them.
DetectInit ==
    /\ scanner = NewScanner
    /\ db = [initialized |-> FALSE, data |-> EmptyData]
    /\ dbFile \in DetectDbFiles
    /\ detector = NewDetector
    /\ hist = NewHist
    /\ QuarInit /\ disk[PathA].bytes = BytesA /\ WatchInit
    /\ probe = NewProbe(HeuristicSensitivity)
    /\ DbIdle
DetectNext ==
    \/ InitializeCall
    \/ NewInstances
    \/ LoadSignaturesCall
    \/ \E f \in DetectFiles : CheckPatternCall(f)
    \/ \E f \in DetectFiles : DetectCall(f)
SpecDetect == DetectInit /\ [][DetectNext]_vars
\* Two start-scan requests, the watcher's scanner and the main process's
\* requests, each with its own ThreatDatabase instance over the one file.
DbNext ==
    \/ \E s \in ScanOwners : StartScanRequest(s)
    \/ \E s \in ScanOwners : ScanSessionStarted(s)
    \/ \E s \in ScanOwners : ScanThreatRecorded(s)
    \/ \E s \in ScanOwners : ScanSessionCompleted(s)
    \/ WatcherDbInitialized
    \/ WatcherThreatRecorded
    \/ \E kind \in {"history", "statistics"} : HistoryRequest(kind)
    \/ Tick
SpecDb == Init /\ [][DbNext]_vars
Next == ScanNext \/ ProgressNext \/ QuarNext \/ WatchNext \/ ToggleNext \/ StoreNext \/ HeurNext \/ DetectNext
        \/ DbNext

(***************************************************************************)
(* Properties.                                                             *)
(***************************************************************************)
\* The session the scan created is in the persisted history, finalized.
SessionFinalized ==
    LET h == dbFile.data.scan_history
        k == FindScan(h, scanner.scanId)
    IN k # 0 /\ h[k].status # "running"

\* C1: after scan() has returned or thrown, the ScanSession it created with
\* recordScanStart is no longer in status 'running'.
C1_SessionFinalizedOnExit ==
    scanner.pc \in {"done", "thrown"} => SessionFinalized

\* One of the file's three digests is the (case-normalized) hash of signature sig.
DigestMatches(file, sig) ==
    LET hs == GenerateAllHashes(file.bytes)
    IN ToLowerCase(sig.hash) \in {hs.md5, hs.sha1, hs.sha256}
Cataloged(file) ==
    \E k \in 1..Len(db.data.hash_signatures) :
        DigestMatches(file, db.data.hash_signatures[k])

\* The step in which the scanFile call of the loop settles.
ScanFileSettles == scanner.pc = "scanFile" /\ scanner'.i = scanner.i + 1
ScannedFile == scanner.files[scanner.i + 1]
\* That call returned a Threat found by hash signature, with the name and
\* severity of a cataloged signature one of the file's digests matches.
ReturnsHashThreat ==
    /\ Len(scanner'.stats.threats) = Len(scanner.stats.threats) + 1
    /\ LET t == scanner'.stats.threats[Len(scanner'.stats.threats)]
       IN /\ t.path = ScannedFile.path
          /\ t.detectionMethod = "signature-hash"
          /\ \E k \in 1..Len(db.data.hash_signatures) :
               LET sig == db.data.hash_signatures[k]
               IN /\ DigestMatches(ScannedFile, sig)
                  /\ t.name = sig.name
                  /\ t.severity = sig.severity
          /\ ScannedFile.bytes = EicarBytes => t.name = "EICAR-Test-File"

\* C2 as claimed: every existing file with a cataloged digest makes scanFile
\* return the hash-signature Threat, whatever its name or extension.
C2_HashMatchAnyFile ==
    [][(ScanFileSettles /\ ScannedFile.statErr = "none" /\ Cataloged(ScannedFile))
        => ReturnsHashThreat]_vars

\* The file passes the checks scanFile makes before it digests the file.
Scannable(file) ==
    /\ file.statErr = "none"
    /\ file.readErr = "none"
    /\ file.size <= MaxFileSize
    /\ ~IsExcluded(file)

\* C2 as amended: every readable file with a cataloged digest that is not larger
\* than maxFileSize and not excluded by extension or path makes scanFile return
\* the hash-signature Threat with the cataloged name and severity
\* (EICAR-Test-File for the EICAR bytes), signature scanning being enabled.
C2_HashMatchScannableFile ==
    [][(ScanFileSettles /\ EnableSignatureScanning /\ Scannable(ScannedFile)
          /\ Cataloged(ScannedFile))
        => ReturnsHashThreat]_vars

\* A scan has reported lib.dll, whose SHA-1 is cataloged in upper case, and
\* eicar.com before or after it.
C2_Witness ==
    /\ \E k \in 1..Len(scanner.stats.threats) :
         /\ scanner.stats.threats[k].path = "lib.dll"
         /\ scanner.stats.threats[k].name = "Trojan.Generic"
         /\ scanner.stats.threats[k].detectionMethod = "signature-hash"
    /\ \E k \in 1..Len(scanner.stats.threats) :
         /\ scanner.stats.threats[k].path = "eicar.com"
         /\ scanner.stats.threats[k].name = "EICAR-Test-File"

\* C3: quarantineFile then restoreFile on the returned id writes a file whose
\* bytes are the original bytes, and whose digest is the digest the record holds.
C3_RestoreReproducesBytes ==
    [][\A c \in Callers :
         (procs[c].pc = "r_writeFile" /\ procs'[c].pc = "r_removeQuar")
         => /\ disk'[procs[c].restorePath] = Present(orig[procs[c].id])
            /\ Digest("sha256", disk'[procs[c].restorePath].bytes) = procs[c].meta.hash]_vars

\* A restore of the quarantined a.exe has returned successfully.
C3_Witness ==
    \E c \in Callers :
        /\ procs[c].op = "restore" /\ procs[c].pc = "done" /\ procs[c].success
        /\ procs[c].plain = BytesA
        /\ procs[c].id \in DOMAIN orig

\* C4: when ciphertext and metadata are written and removing the original
\* fails, quarantineFile still reports success.
C4_SuccessWhenOriginalRemains ==
    \A c \in Callers :
        (procs[c].op = "quarantine" /\ procs[c].pc = "done"
           /\ procs[c].wroteCipher /\ procs[c].wroteMeta
           /\ procs[c].error = "remove failed")
        => procs[c].success

\* C5: when no call is in flight, the store holds the ciphertext of an id if and
\* only if it holds its metadata.
C5_NoOrphanHalf ==
    (\A c \in Callers : Free(c)) => DOMAIN vault.quar = DOMAIN vault.meta

\* C6: a restoreFile call changes the quarantine store only after it has written
\* the plaintext: every step up to and including the plaintext write, failed or
\* not, leaves ciphertext and metadata as they were, and the metadata is removed
\* only by the step that follows the removal of the ciphertext.
RestoreSteps(c) ==
    /\ procs[c].op = "restore"
    /\ procs[c].pc # "done"
    /\ procs'[c] # procs[c]
C6_RestoreRemovesAfterWrite ==
    [][\A c \in Callers :
         RestoreSteps(c) =>
            /\ ~procs[c].wrotePlain => vault' = vault
            /\ vault'.meta # vault.meta =>
                 procs[c].pc = "r_removeMeta" /\ procs[c].id \notin DOMAIN vault.quar]_vars

\* A restore has failed at the plaintext write and the record is still whole.
C6_Witness ==
    \E c \in Callers :
        /\ procs[c].op = "restore" /\ procs[c].pc = "done"
        /\ procs[c].error = "write failed"
        /\ procs[c].id \in DOMAIN vault.quar
        /\ procs[c].id \in DOMAIN vault.meta

\* C7: once stop() has been called on a scan that is in its per-file loop, the
\* scan eventually ends, its session finalized, with
\* filesScanned + errors <= totalFiles.
C7_StopEndsScan ==
    (hist.stopped /\ scanner.pc \in {"sleep", "scanFile"})
    ~> (/\ scanner.pc = "done"
        /\ SessionFinalized
        /\ scanner.stats.filesScanned + scanner.stats.errors <= scanner.totalFiles)

\* C8: once stop() has returned during a scan, that scan starts no further
\* scanFile call.
C8_NoScanFileAfterStop ==
    [][hist.stopped => hist.started' = hist.started]_vars

\* C9: no file larger than maxFileSize is digested, and the final filesScanned
\* counts none of them.
C9_OversizeNotCounted ==
    scanner.pc = "done" =>
        /\ \A k \in 1..Len(scanner.files) :
              scanner.files[k].size > MaxFileSize => k \notin hist.digested
        /\ scanner.stats.filesScanned <=
              Cardinality({k \in 1..Len(scanner.files) :
                              scanner.files[k].size <= MaxFileSize})

\* C10: at most one scanAndHandle is in flight at any time.
C10_OneScanAndHandle ==
    Cardinality({l \in LoopIds : loops[l].pc = "scan"}) <= 1

\* Two loops are alive: one is inside scanAndHandle, the other sleeps, and a
\* path is waiting in the queue.
C10_Witness ==
    \E l1, l2 \in LoopIds :
        /\ loops[l1].pc = "scan"
        /\ loops[l2].pc = "sleep"
        /\ watcher.watching
        /\ Len(watcher.scanQueue) > 0

\* A loop is alive.
Alive(l) == loops[l].pc # "dead"

\* C11: once toggleRealTimeProtection(false) has returned and until the next
\* toggleRealTimeProtection(true), the subscription is closed, the flag is down
\* and the queue is empty; no loop starts a file; every loop that is still alive
\* eventually terminates; and a FileWatcher held by the main process has at most
\* one loop of its own, however often toggle(true) is repeated.
C11_ToggleOffLeavesNoWatcher ==
    /\ [](~fileWatcher =>
            ~watcher.open /\ ~watcher.watching /\ watcher.scanQueue = <<>>)
    /\ [](Cardinality({l \in LoopIds : loops[l].pc \in {"sleep", "scan"}}) <= 1)
    /\ [][~fileWatcher /\ ~fileWatcher' =>
            \A l \in LoopIds : loops'[l].pc = "scan" => loops[l].pc = "scan"]_vars
    /\ \A l \in LoopIds : (~fileWatcher /\ Alive(l)) ~> ~Alive(l)

\* toggle(true) and then toggle(false) at once: the loop the FileWatcher started
\* is in its first sleep, and nothing was ever scanned.
C11_Witness ==
    /\ ~fileWatcher
    /\ \E l \in LoopIds : loops[l].pc = "sleep"
    /\ \A l \in LoopIds : loops[l].pc \in {"sleep", "dead"}
    /\ ~watcher.open /\ ~watcher.processing /\ watcher.lastEvent = "none"

\* The call of caller c settles in this step.
Settles(c) == procs[c].pc \notin {"idle", "done"} /\ procs'[c].pc = "done"
\* The id that c names is one a quarantineFile call handed out.
IdReturned(c) == procs[c].id \in 1..(nextId - 1)

\* C12: when permanentDelete on the id a quarantineFile call returned succeeds,
\* the store holds neither the ciphertext nor the metadata of that id; and a
\* restoreFile call that finds the metadata or the ciphertext missing fails with
\* 'Quarantined file not found' and changes neither the store nor the disk, so
\* that none goes on to read a record of which a half is missing.
C12_DeletedRecordNotFound ==
    [][\A c \in Callers :
         /\ (procs[c].op = "delete" /\ Settles(c) /\ procs'[c].success /\ IdReturned(c))
            => /\ procs[c].id \notin DOMAIN vault'.quar
               /\ procs[c].id \notin DOMAIN vault'.meta
         /\ (procs[c].op = "restore" /\ procs'[c] # procs[c]
               /\ \/ procs[c].pc = "r_metaExists" /\ procs[c].id \notin DOMAIN vault.meta
                  \/ procs[c].pc = "r_quarExists" /\ procs[c].id \notin DOMAIN vault.quar)
            => /\ procs'[c].pc = "done"
               /\ ~procs'[c].success
               /\ procs'[c].error = "Quarantined file not found"
               /\ vault' = vault /\ disk' = disk]_vars

\* a.exe was quarantined and the record deleted (the file is nowhere on disk
\* and the store is empty); the restore that followed failed with not-found.
C12_Witness ==
    \E c \in Callers :
        /\ procs[c].op = "restore" /\ procs[c].pc = "done"
        /\ procs[c].error = "Quarantined file not found"
        /\ procs[c].id \in DOMAIN orig
        /\ DOMAIN vault.quar = {} /\ DOMAIN vault.meta = {}
        /\ dirs = Dirs
        /\ \A p \in AllPaths : ~disk[p].exists

\* C13: restoreFile does not fail for want of a directory when the original
\* directory of the record is gone: the plaintext write it then makes goes to
\* Restored_<originalName> in a directory that exists.
C13_RestoreSurvivesLostDirectory ==
    [][\A c \in Callers :
         (procs[c].op = "restore" /\ procs[c].pc = "r_writeFile" /\ procs'[c] # procs[c]
            /\ procs[c].meta.originalPath.dir \notin dirs)
         => /\ procs[c].restorePath = FallbackPath(procs[c].meta.fileName)
            /\ procs[c].restorePath.dir \in dirs]_vars

\* The stored ciphertext of id is one that encryptFile made of the original bytes.
Genuine(id) == \E iv \in 0..(ByteMod - 1) : vault.quar[id] = EncryptFile(orig[id], iv)

\* C14: a restoreFile call that reads a ciphertext which is not what encryptFile
\* wrote for the record fails with an error other than 'Quarantined file not
\* found', writes nothing and leaves the ciphertext and the metadata in place.
C14_CorruptCiphertextRejected ==
    [][\A c \in Callers :
         (procs[c].op = "restore" /\ procs[c].pc = "r_readQuar" /\ procs'[c] # procs[c]
            /\ procs[c].id \in DOMAIN vault.quar /\ ~Genuine(procs[c].id))
         => /\ procs'[c].pc = "done"
            /\ ~procs'[c].success
            /\ procs'[c].error # "Quarantined file not found"
            /\ vault' = vault /\ disk' = disk]_vars

\* The record of id is the same before and after the step.
RecordUntouched(id) ==
    /\ id \in DOMAIN vault.quar <=> id \in DOMAIN vault'.quar
    /\ id \in DOMAIN vault.meta <=> id \in DOMAIN vault'.meta
    /\ id \in DOMAIN vault.quar => vault'.quar[id] = vault.quar[id]
    /\ id \in DOMAIN vault.meta => vault'.meta[id] = vault.meta[id]

\* C15: a permanentDelete call touches no record but the one it names; it fails
\* only when a removal fails, never because a half is missing; and when it
\* succeeds neither half of the record is left, whichever halves it found.
C15_DeleteIdempotent ==
    [][\A c \in Callers :
         (procs[c].op = "delete" /\ procs[c].pc # "done" /\ procs'[c] # procs[c])
         => /\ \A id \in (DOMAIN vault.quar \cup DOMAIN vault.meta) \ {procs[c].id} :
                 RecordUntouched(id)
            /\ (Settles(c) /\ ~procs'[c].success) => procs'[c].error = "remove failed"
            /\ (Settles(c) /\ procs'[c].success)
                 => /\ procs[c].id \notin DOMAIN vault'.quar
                    /\ procs[c].id \notin DOMAIN vault'.meta]_vars

\* permanentDelete has succeeded on an id that has no record, and both stored
\* records are as they were.
C15_Witness ==
    \E c \in Callers :
        /\ procs[c].op = "delete" /\ procs[c].pc = "done" /\ procs[c].success
        /\ procs[c].id \notin DOMAIN orig
        /\ DOMAIN vault.quar = {1, 2} /\ DOMAIN vault.meta = {1, 2}

\* C16: getQuarantineList returns every record that readdir listed and that is
\* still stored when the call returns.
C16_ListSkipsOnlyVanished ==
    lister.pc = "done" =>
        \A id \in lister.seen \cap DOMAIN vault.meta :
            \E k \in 1..Len(lister.list) : lister.list[k] = vault.meta[id]

\* The scanFile call on the file fails: fs.stat or the read of the file rejects.
ScanFails(file) ==
    \/ file.statErr # "none"
    \/ file.readErr # "none" /\ file.size <= MaxFileSize /\ ~IsExcluded(file)

\* C17: a file whose scan fails does not end the scan: files are started in the
\* order of the enumeration without a gap, scan() does not throw for a per-file
\* failure, and a scan that stop() was not called on returns only after every
\* file was started, with its session finalized.
C17_FailureDoesNotAbort ==
    /\ hist.started = 1..Cardinality(hist.started)
    /\ hist.failed # {} => scanner.pc # "thrown"
    /\ (scanner.pc = "done" /\ ~hist.stopped)
         => /\ hist.started = 1..Len(scanner.files)
            /\ hist.counted \cup hist.failed = hist.started
            /\ SessionFinalized

\* The scan of the first file failed, the second file was scanned, and scan()
\* has returned.
C17_Witness ==
    /\ scanner.pc = "done"
    /\ 1 \in hist.failed
    /\ 2 \in hist.counted
    /\ scanner.stats.errors = 1 /\ scanner.stats.filesScanned = 1
    /\ SessionFinalized

\* C18: when scan() has returned, errors counts the files whose scan failed and
\* filesScanned counts the other files that were processed.
C18_FailedFilesCountedAsErrors ==
    scanner.pc = "done" =>
        LET bad == {k \in hist.started : ScanFails(scanner.files[k])}
        IN /\ scanner.stats.errors = Cardinality(bad)
           /\ scanner.stats.filesScanned = Cardinality(hist.started \ bad)

\* The terminal events the scan has emitted: stop() emits scan-stopped, and
\* scan() emits scan-complete after recordScanComplete.
TerminalEvents ==
    (IF hist.stopped THEN {"scan-stopped"} ELSE {})
    \cup (IF scanner.pc = "done" THEN {"scan-complete"} ELSE {})

\* C19: a scan that started on a file in the per-file loop and has ended has
\* finalized its session with the final counts and has emitted exactly one
\* terminal event, scan-complete or scan-stopped.
C19_OneTerminalEvent ==
    (scanner.pc = "done" /\ hist.started # {}) =>
        /\ SessionFinalized
        /\ LET h == dbFile.data.scan_history
               k == FindScan(h, scanner.scanId)
           IN /\ h[k].files_scanned = scanner.stats.filesScanned
              /\ h[k].threats_found = scanner.stats.threatsFound
        /\ Cardinality(TerminalEvents) = 1

\* C20: scanFile yields at most one Threat per file, by precedence: the hash
\* signature if a digest is cataloged, and then the patterns are not tested;
\* otherwise the pattern signature the pattern check finds; otherwise, with
\* heuristic analysis enabled, the heuristic detection; otherwise none.
C20_DetectionPrecedence ==
    [][ScanFileSettles =>
        LET f      == ScannedFile
            loaded == LoadSignatures(detector, db.data)
            pat    == CheckPatternSignatures(loaded, f)
            n      == Len(scanner.stats.threats)
            got    == Len(scanner'.stats.threats) = n + 1
            t      == scanner'.stats.threats[n + 1]
        IN /\ Len(scanner'.stats.threats) \in {n, n + 1}
           /\ IF ~Scannable(f) THEN ~got
              ELSE IF EnableSignatureScanning /\ Cataloged(f)
              THEN /\ got /\ t.detectionMethod = "signature-hash"
                   /\ detector'.patterns = loaded.patterns
              ELSE IF EnableSignatureScanning /\ pat.found
              THEN got /\ t.detectionMethod = "signature-pattern" /\ t.name = pat.info.name
              ELSE IF EnableHeuristicAnalysis /\ Analyze(f).found
              THEN got /\ t.detectionMethod = "heuristic"
              ELSE ~got]_vars

\* get.ps1, which holds a cataloged digest, the download pattern and a
\* suspicious name, was reported by its hash, and no pattern was tested.
C20_Witness ==
    /\ \E k \in 1..Len(scanner.stats.threats) :
         /\ scanner.stats.threats[k].path = "get.ps1"
         /\ scanner.stats.threats[k].detectionMethod = "signature-hash"
    /\ Len(scanner.stats.threats) = 1
    /\ Len(detector.patterns) = 1
    /\ detector.patterns[1].lastIndex = 0

\* C21 helper: the pattern occurs in the content.
Occurs(pat, content) ==
    \E p, q \in 1..Len(content) : p < q /\ content[p] = pat.first /\ content[q] = pat.last

\* C21: for a file with an allow-listed extension, whatever was checked before,
\* checkPatternSignatures returns the first pattern in catalog order that occurs
\* in the file, and none only if no cataloged pattern occurs in it.
C21_FirstOccurringPattern ==
    [][\A f \in DetectFiles :
         (CheckPatternCall(f) /\ f.ext \in PatternScanExtensions)
         => LET hits == {k \in 1..Len(detector.patterns) :
                            Occurs(detector.patterns[k].pattern, f.bytes)}
            IN IF hits = {} THEN ~probe'.result.found
               ELSE /\ probe'.result.found
                    /\ \E k \in hits :
                         /\ \A j \in hits : k <= j
                         /\ probe'.result.info = SigInfo(detector.patterns[k])]_vars

\* The cutoff of a sensitivity and the severity band of a score.
Cutoff(sensitivity) ==
    IF sensitivity = "low" THEN 60 ELSE IF sensitivity = "medium" THEN 40 ELSE 25
Band(score) == IF score >= 70 THEN "high" ELSE IF score >= 50 THEN "medium" ELSE "low"

\* C22: analyze returns a heuristic Threat exactly when the score is at least the
\* cutoff of the analyzer's sensitivity (low 60, medium 40, high 25), and the
\* Threat's severity is high from 70, medium from 50 to 69 and low below.
C22_CutoffAndSeverityBands ==
    probe.op = "analyze" =>
        /\ probe.result.found <=> probe.score >= Cutoff(probe.sensitivity)
        /\ probe.result.found
             => /\ probe.result.method = "heuristic"
                /\ probe.result.info.severity = Band(probe.score)
        /\ probe.score =
             (IF "extension" \in SuspiciousTraits(probe.file)
              THEN (IF probe.file.ext = ".dll" THEN 10 ELSE 15) ELSE 0)
             + (IF "name" \in SuspiciousTraits(probe.file) THEN 20 ELSE 0)
             + (IF "location" \in SuspiciousTraits(probe.file) THEN 10 ELSE 0)
             + (IF "size" \in SuspiciousTraits(probe.file)
                THEN (IF probe.file.ext \in {".bat", ".ps1"} THEN 10 ELSE 15) ELSE 0)
             + (IF "attributes" \in SuspiciousTraits(probe.file) THEN 15 ELSE 0)
             + (IF "double" \in SuspiciousTraits(probe.file) THEN 20 ELSE 0)
             + (IF "content" \in SuspiciousTraits(probe.file) THEN 15 ELSE 0)

\* An analyzer of high sensitivity reported a file whose score is exactly 25,
\* with severity low.
C22_Witness ==
    /\ probe.op = "analyze" /\ probe.sensitivity = "high"
    /\ probe.score = 25
    /\ probe.result.found /\ probe.result.info.severity = "low"

\* g is f with one of the things the checks look at changed.
OneTraitApart(f, g) ==
    Cardinality({a \in {"dir", "ext", "size", "bytes", "nameHit", "hiddenOrSystem",
                        "doubleExt"} : f[a] # g[a]}) = 1

Collections(data) == <<data.hash_signatures, data.pattern_signatures>>
\* No hash and no pattern name is cataloged twice.
NoDuplicates(data) ==
    /\ \A j, k \in 1..Len(data.hash_signatures) :
         data.hash_signatures[j].hash = data.hash_signatures[k].hash => j = k
    /\ \A j, k \in 1..Len(data.pattern_signatures) :
         data.pattern_signatures[j].name = data.pattern_signatures[k].name => j = k
\* The pattern list of a detector as loadSignatures compiled it.
Compiled(det) ==
    [k \in DOMAIN det.patterns |-> [det.patterns[k] EXCEPT !.lastIndex = 0]]

\* C24: once the database is initialized, no call changes the signature
\* collections in memory or in the file, and the file holds the collections of
\* memory without a duplicate, also when initialize seeded a file that had kept
\* a seed; once the detector has loaded, no call changes its hash table or the
\* patterns it compiled (their search position apart).
C24_LoadingIdempotent ==
    [][/\ (db.initialized /\ db'.initialized)
            => Collections(db'.data) = Collections(db.data)
       /\ (dbFile.exists /\ Len(dbFile.data.hash_signatures) > 0)
            => Collections(dbFile'.data) = Collections(dbFile.data)
       /\ db'.initialized
            => /\ NoDuplicates(db'.data)
               /\ dbFile'.exists
               /\ Collections(dbFile'.data) = Collections(db'.data)
       /\ (detector.signaturesLoaded /\ detector'.signaturesLoaded)
            => /\ detector'.hashes = detector.hashes
               /\ Compiled(detector') = Compiled(detector)]_vars

\* The file that had kept the seeded pattern was seeded again, the detector has
\* loaded, and a detect call has found the pattern: it is cataloged once.
C24_Witness ==
    /\ db.initialized /\ detector.signaturesLoaded
    /\ dbFile.data.scan_history = <<>>
    /\ dbFile.data.hash_signatures = <<EicarMd5Sig, EicarSha256Sig>>
    /\ dbFile.data.pattern_signatures = <<DownloaderSig>>
    /\ probe.op = "detect" /\ probe.result.found
    /\ probe.result.method = "signature-pattern"

\* C25: when an exception is raised while a queued path is processed, the
\* processing flag is released, the loop goes on to its next sleep and the queue
\* is as it was; and every path in the queue is taken by a loop in the end,
\* unless the watcher is stopped.
C25_LoopSurvivesException ==
    /\ [][\A l \in LoopIds :
            (loops[l].pc = "scan" /\ loops'[l] # loops[l] /\ watcher'.lastRaised)
            => /\ ~watcher'.processing
               /\ loops'[l].pc = "sleep"
               /\ watcher'.scanQueue = watcher.scanQueue
               /\ watcher'.watching = watcher.watching]_vars
    /\ \A p \in WatchedFiles :
         InQueue(watcher.scanQueue, p)
         ~> (\/ \E l \in LoopIds : loops[l].pc = "scan" /\ loops[l].path = p
             \/ ~watcher.watching)

\* After a scanAndHandle in which an exception was raised, a loop has taken the
\* next path of the queue and a third path waits.
C25_Witness ==
    /\ watcher.lastRaised /\ watcher.watching /\ watcher.processing
    /\ \E l \in LoopIds : loops[l].pc = "scan" /\ loops[l].path = "Downloads/y.exe"
    /\ watcher.scanQueue = <<"Desktop/z.js">>

\* The loop calls scanFile on the next file in this step.
StartsFile ==
    scanner'.pc = "scanFile" /\ (scanner.pc # "scanFile" \/ scanner'.i # scanner.i)

\* C26: no file starts being scanned while the scan is paused; the file that
\* starts is the next of the enumeration, after every earlier file was started
\* and has finished, and it was not started before.
C26_PauseHoldsNextFile ==
    [][StartsFile =>
         /\ ~scanner.paused /\ ~scanner'.paused
         /\ hist.started = 1..scanner'.i
         /\ hist'.counted \cup hist'.failed = 1..scanner'.i
         /\ hist'.started = 1..(scanner'.i + 1)]_vars

\* The scan is paused: the file that was in flight has finished, the loop polls
\* the flag, and the second file has not started.
C26_Witness ==
    /\ scanner.paused /\ scanner.scanning /\ scanner.pc = "sleep"
    /\ Len(scanner.files) = 2
    /\ hist.started = {1} /\ hist.counted = {1}

\* scan() has emitted scan-started: it is past collectFiles.
ScanStartedEmitted == scanner.pc \in {"scanFile", "sleep", "saveComplete", "done"}

\* C27: a scan of type 'custom' without paths, or of an unrecognized type, does
\* not get past the choice of its paths: once recordScanStart has settled it has
\* thrown, with no file enumerated, none scanned and scan-started not emitted.
C27_InvalidRequestThrows ==
    LET invalid == \/ scanner.type = "custom" /\ scanner.paths = <<>>
                   \/ scanner.type \notin {"quick", "full", "custom"}
    IN (invalid /\ scanner.pc \notin {"idle", "initialize", "recordStart"})
       => /\ scanner.pc = "thrown"
          /\ ~scanner.scanning
          /\ scanner.files = <<>> /\ scanner.totalFiles = 0
          /\ hist.started = {} /\ hist.digested = {} /\ hist.counted = {}
          /\ ~ScanStartedEmitted

\* scan({type: 'custom', paths: []}) has thrown.
C27_Witness ==
    /\ scanner.pc = "thrown"
    /\ scanner.type = "custom" /\ scanner.paths = <<>>
    /\ scanner.files = <<>> /\ hist.started = {}

\* C29: the list that getQuarantineList returns holds every record that readdir
\* listed and that is still stored, each record once and only records that
\* readdir listed, the newest first.
C29_ListIsStoredNewestFirst ==
    lister.pc = "done" =>
        /\ \A id \in lister.seen \cap DOMAIN vault.meta :
             Cardinality({k \in 1..Len(lister.list) : lister.list[k].id = id}) = 1
        /\ \A k \in 1..Len(lister.list) : lister.list[k].id \in lister.seen
        /\ \A j, k \in 1..Len(lister.list) :
             j < k => lister.list[j].id >= lister.list[k].id

\* C30: every progress event of a scan reports a filesScanned that is a
\* multiple of 10 or the number of files of the scan, at most that number, and
\* a percentage from 0 to 100; filesScanned grows from each event to the next,
\* and a scan of N files emits at most floor(N/10)+1 events.
C30_ProgressCadence ==
    LET events == hist.progress
    IN /\ \A k \in 1..Len(events) :
            /\ events[k].totalFiles = scanner.totalFiles
            /\ \/ events[k].filesScanned % 10 = 0
               \/ events[k].filesScanned = events[k].totalFiles
            /\ events[k].filesScanned \in 1..events[k].totalFiles
            /\ events[k].percentage \in 0..100
       /\ \A j, k \in 1..Len(events) :
            j < k => events[j].filesScanned < events[k].filesScanned
       /\ Len(events) <= (scanner.totalFiles \div 10) + 1

\* A scan of 21 files has finished with three progress events, at 10, 20 and
\* 21 files scanned.
C30_Witness ==
    /\ scanner.pc = "done" /\ scanner.totalFiles = 21
    /\ Len(hist.progress) = 3
    /\ hist.progress[1].filesScanned = 10 /\ hist.progress[1].percentage = 48
    /\ hist.progress[3].filesScanned = 21 /\ hist.progress[3].percentage = 100

C33_AtMostOneLoopAlive ==
    Cardinality({l \in LoopIds : Alive(l)}) <= 1

\* scanFile returned a threat, so that quarantineFile was called; it succeeded.
ThreatFound(outcome) == outcome \in {"quarantined", "detected"}
QuarantineSucceeded(outcome) == outcome = "quarantined"

C32_OneRecordPerPath ==
    \A c1, c2 \in Callers :
        (/\ c1 # c2
         /\ procs[c1].op = "quarantine" /\ procs[c2].op = "quarantine"
         /\ procs[c1].path = procs[c2].path
         /\ procs[c1].wroteMeta /\ procs[c2].wroteMeta)
        => ~(/\ procs[c1].id # procs[c2].id
             /\ procs[c1].id \in DOMAIN vault.meta
             /\ procs[c2].id \in DOMAIN vault.meta)

\* C34: the fs.writeFile of a restoreFile call leaves every file that exists
\* as it is: the call creates the restored file and changes no other.
C34_RestoreKeepsExistingFiles ==
    [][\A c \in Callers :
         (procs[c].op = "restore" /\ procs[c].pc = "r_writeFile"
            /\ procs'[c].pc # procs[c].pc)
         => \A p \in AllPaths : disk[p].exists => disk'[p] = disk[p]]_vars

\* C31: a session that a scan's instance has saved stays in the database file,
\* and so does a threat detection it has saved, whatever other instances save.
C31_SavedRecordsStay ==
    \A s \in ScanOwners :
        sessions[s].pc \in {"running", "done"} =>
            /\ \E k \in 1..Len(dbFile.data.scan_history) :
                 /\ dbFile.data.scan_history[k].id = sessions[s].scanId
                 /\ dbFile.data.scan_history[k].scan_type = ScanTypeOf(s)
            /\ sessions[s].threats > 0 =>
                 \E k \in 1..Len(dbFile.data.threat_detections) :
                    dbFile.data.threat_detections[k].scan_id = sessions[s].scanId

\* C35: recordScanComplete of a scan marks the session that the scan's own
\* recordScanStart pushed, and the sessions an instance holds have different ids.
C35_CompleteFinalizesOwnSession ==
    \A s \in ScanOwners :
        LET history == dbs[s].data.scan_history
        IN /\ sessions[s].pc = "done" =>
                history[sessions[s].slot].status = "completed"
           /\ \A j, k \in 1..Len(history) : j # k => history[j].id # history[k].id

\* C36: a reply to get-scan-history holds the completed session of every scan
\* that had completed when the request was served, with its count of files; a
\* reply to get-statistics counts those scans and their files.
C36_RepliesIncludeCompletedScans ==
    \A s \in reply.completed :
        /\ reply.kind = "history" =>
             \E k \in 1..Len(reply.history) :
                /\ reply.history[k].id = sessions[s].scanId
                /\ reply.history[k].scan_type = ScanTypeOf(s)
                /\ reply.history[k].status = "completed"
                /\ reply.history[k].files_scanned = FilesOf(s)
        /\ reply.kind = "statistics" =>
             /\ reply.totalScans >= Cardinality(reply.completed)
             /\ reply.totalFilesScanned >= FilesOf(s)

====
